---- MODULE Spec2Model ----
(***************************************************************************)
(* A model of molter's argument binder (molter/command.py): the descriptor *)
(* builder _get_params and the binding loop MolterCommand.call_callback    *)
(* with its helpers ArgsIterator, _convert and _greedy_convert.            *)
(***************************************************************************)
EXTENDS Integers, Sequences, FiniteSets, TLC

(***************************************************************************)
(* Bounds of the model.                                                    *)
(***************************************************************************)
MaxParams == 2
MaxTokens == 3

(***************************************************************************)
(* Python values.  A value is a record tagged by its kind k.               *)
(***************************************************************************)
MISSING == [k |-> "MISSING", v |-> 0]
None == [k |-> "None", v |-> 0]
IntV(n) == [k |-> "int", v |-> n]
BoolV(b) == [k |-> "bool", v |-> b]
StrV(s) == [k |-> "str", v |-> s]
ListV(s) == [k |-> "list", v |-> s]
TupleV(s) == [k |-> "tuple", v |-> s]

\* bool(x) as taken by "if param.default:"
Truthy(x) ==
    CASE x.k = "MISSING" -> FALSE
      [] x.k = "None" -> FALSE
      [] x.k = "int" -> x.v # 0
      [] x.k = "bool" -> x.v
      [] x.k = "str" -> x.v # ""
      [] x.k = "list" -> Len(x.v) > 0
      [] x.k = "tuple" -> Len(x.v) > 0
      [] OTHER -> TRUE

(***************************************************************************)
(* Strings.  A string is spelled as its sequence of characters so that     *)
(* slicing, lower() and join are computed on characters.                   *)
(***************************************************************************)
Spell(s) == [i \in 1..Len(s) |-> SubSeq(s, i, i)]

RECURSIVE Unspell(_)
Unspell(cs) == IF cs = <<>> THEN "" ELSE Head(cs) \o Unspell(Tail(cs))

UpperCase == <<"A", "B", "C", "D", "E", "F", "G", "H", "I", "J", "K", "L", "M",
               "N", "O", "P", "Q", "R", "S", "T", "U", "V", "W", "X", "Y", "Z">>
LowerCase == <<"a", "b", "c", "d", "e", "f", "g", "h", "i", "j", "k", "l", "m",
               "n", "o", "p", "q", "r", "s", "t", "u", "v", "w", "x", "y", "z">>

LowerChar(c) ==
    IF \E i \in 1..26 : UpperCase[i] = c
    THEN LowerCase[CHOOSE i \in 1..26 : UpperCase[i] = c]
    ELSE c

\* lower() that returns the string as it is
Lower_AsIs(s) == s

\* str.lower()
Lower(s) == Unspell([i \in 1..Len(Spell(s)) |-> LowerChar(Spell(s)[i])])

\* sep.join(parts)
RECURSIVE Join(_, _)
Join(sep, parts) ==
    IF parts = <<>> THEN ""
    ELSE IF Len(parts) = 1 THEN parts[1]
    ELSE parts[1] \o sep \o Join(sep, Tail(parts))

\* the opening quote characters, the keys of dis_snek's _quotes
_quotes == {"\""}

_arg_fix(a) ==
    LET cs == Spell(a)
    IN  IF cs[1] \in _quotes THEN Unspell(SubSeq(cs, 2, Len(cs) - 1)) ELSE a

(***************************************************************************)
(* Errors.                                                                 *)
(***************************************************************************)
\* dis_snek's escape_mentions rewrites "@" mentions only; no token of the
\* model holds one
escape_mentions(m) == m

BadArgument(m) == [exc |-> "BadArgument", msg |-> escape_mentions(m)]
Raised(e, m) == [exc |-> e, msg |-> m]
NoError == [exc |-> "none", msg |-> ""]

(***************************************************************************)
(* Converters.                                                             *)
(***************************************************************************)
Ok(v) == [ok |-> TRUE, val |-> v, err |-> NoError]
Fail(e) == [ok |-> FALSE, val |-> MISSING, err |-> e]

_convert_to_bool(argument) ==
    LET lowered == Lower(argument)
    IN  IF lowered \in {"yes", "y", "true", "t", "1", "enable", "on"}
        THEN Ok(BoolV(TRUE))
        ELSE IF lowered \in {"no", "n", "false", "f", "0", "disable", "off"}
        THEN Ok(BoolV(FALSE))
        ELSE Fail(BadArgument(argument \o " is not a recognised boolean option."))

\* int(arg)
PyInt(a) ==
    CASE a = "1" -> Ok(IntV(1))
      [] a = "2" -> Ok(IntV(2))
      [] OTHER -> Fail(Raised("ValueError",
                    "invalid literal for int() with base 10: '" \o a \o "'"))

\* the plain functions handlers use as parameter types in the model:
\*   def fn0(): ...             def fn1(arg): ...      def fn2(ctx, arg): ...
\*   def fn3(ctx, arg, extra): ...                     async def afn1(arg): ...
\*   def fnc1(arg): ...  with  fnc1.convert = a function of (ctx, arg)
\* the classes with a convert attribute: AConv, a Converter subclass whose
\* convert is an async def, and HasConvert, a class of its own with a static
\* method convert(ctx, arg); and Lit, which is typing.Literal[1, "x"]
FunctionTypes == {"fn0", "fn1", "fn2", "fn3", "afn1", "fnc1"}
ConverterClasses == {"AConv", "HasConvert"}
LiteralTypes == {"Lit"}
AsyncDefs == {"afn1", "AConv", "SnowflakeConverter", "Lit"}

\* converters.SNEK_OBJECT_TO_CONVERTER, of which the model keeps the entry
\* whose converter needs no Discord object
SNEK_OBJECT_TO_CONVERTER == [t \in {"SnowflakeObject"} |-> "SnowflakeConverter"]

\* hasattr(anno, "convert")
HasConvertAttr(anno) == anno \in ConverterClasses \cup {"fnc1"}

\* inspect.isclass(anno) and issubclass(anno, converters.Converter):
\* Converter is a runtime_checkable Protocol, so every class that has a
\* convert attribute passes
IsConverterSubclass(anno) ==
    /\ anno \in ConverterClasses
                 \cup {"SnowflakeObject", "int", "str", "bool", "empty", "NoneType"}
    /\ HasConvertAttr(anno)

\* len(inspect.signature(anno).parameters.values())
num_params(anno) ==
    CASE anno = "fn0" -> 0
      [] anno \in {"fn1", "afn1", "fnc1"} -> 1
      [] anno = "fn2" -> 2
      [] OTHER -> 3

\* _get_converter that looks at the kind of type before the registry and
\* the convert attribute
_get_converter_TypeFirst(anno) ==
    IF anno \in FunctionTypes
    THEN CASE num_params(anno) = 2 -> [kind |-> "ctx_arg", anno |-> anno]
           [] num_params(anno) = 1 -> [kind |-> "arg", anno |-> anno]
           [] num_params(anno) = 0 -> [kind |-> "no_args", anno |-> anno]
           [] OTHER -> [kind |-> "None", anno |-> anno]
    ELSE IF anno = "bool" THEN [kind |-> "bool", anno |-> anno]
    ELSE IF anno = "empty" THEN [kind |-> "str", anno |-> anno]
    ELSE IF anno \in DOMAIN SNEK_OBJECT_TO_CONVERTER
    THEN [kind |-> "registered", anno |-> anno]
    ELSE IF IsConverterSubclass(anno) THEN [kind |-> "convert", anno |-> anno]
    ELSE IF anno \in LiteralTypes THEN [kind |-> "literal", anno |-> anno]
    ELSE [kind |-> "call", anno |-> anno]

\* what _get_converter returns for a concrete type: kind tells which callable
\* it is ("registered": converter().convert of the registry's class,
\* "convert": anno().convert, "attr_convert": anno.convert, "literal":
\* LiteralConverter(literals).convert) or how the returned lambda passes
\* (ctx, arg) on to anno.  For a function of more than 2 parameters the
\* ValueError is built but not raised and the function returns None
_get_converter(anno) ==
    IF anno \in DOMAIN SNEK_OBJECT_TO_CONVERTER
    THEN [kind |-> "registered", anno |-> anno]
    ELSE IF IsConverterSubclass(anno) THEN [kind |-> "convert", anno |-> anno]
    ELSE IF HasConvertAttr(anno) THEN [kind |-> "attr_convert", anno |-> anno]
    ELSE IF anno \in LiteralTypes THEN [kind |-> "literal", anno |-> anno]
    ELSE IF anno \in FunctionTypes
    THEN CASE num_params(anno) = 2 -> [kind |-> "ctx_arg", anno |-> anno]
           [] num_params(anno) = 1 -> [kind |-> "arg", anno |-> anno]
           [] num_params(anno) = 0 -> [kind |-> "no_args", anno |-> anno]
           [] OTHER -> [kind |-> "None", anno |-> anno]
    ELSE IF anno = "bool" THEN [kind |-> "bool", anno |-> anno]
    ELSE IF anno = "empty" THEN [kind |-> "str", anno |-> anno]
    ELSE [kind |-> "call", anno |-> anno]

\* the context object and a coroutine object: the call of an async def that
\* has not run yet
CtxV == [k |-> "ctx", v |-> 0]
CoroutineV(f, received) == [k |-> "coroutine", v |-> <<f, received>>]

\* [0-9]{15,} over the whole of s
IsId(s) ==
    /\ Len(s) >= 15
    /\ \A i \in 1..Len(s) :
           SubSeq(s, i, i) \in {"0", "1", "2", "3", "4", "5", "6", "7", "8", "9"}

\* the digits SnowflakeConverter.convert finds in a token: the token itself
\* ("([0-9]{15,})$"), or those of a mention
\* ("<(?:@(?:!|&)?|#)([0-9]{15,})>$"); "" when neither matches
IdOf(a) ==
    IF IsId(a) THEN a
    ELSE IF Len(a) >= 3 /\ SubSeq(a, 1, 1) = "<" /\ SubSeq(a, Len(a), Len(a)) = ">"
    THEN LET inner == SubSeq(a, 2, Len(a) - 1)
             tail(n) == SubSeq(inner, n + 1, Len(inner))
         IN  IF SubSeq(inner, 1, 2) \in {"@!", "@&"} /\ IsId(tail(2)) THEN tail(2)
             ELSE IF SubSeq(inner, 1, 1) \in {"@", "#"} /\ IsId(tail(1)) THEN tail(1)
             ELSE ""
    ELSE ""

\* SnowflakeConverter.convert; the id is kept as its digits
SnowflakeConvert(a) ==
    IF IdOf(a) = "" THEN Fail(BadArgument(a))
    ELSE Ok([k |-> "SnowflakeObject", v |-> IdOf(a)])

\* LiteralConverter.convert: the token itself when "arg ==
\* converter(argument)" holds of a literal, converter being type(arg) and an
\* exception of the converter counting as no match; the message lists
\* str(literal)
LiteralConvert(literals, a) ==
    IF \E i \in 1..Len(literals) :
           IF literals[i].k = "int"
           THEN PyInt(a).ok /\ PyInt(a).val = literals[i]
           ELSE literals[i] = StrV(a)
    THEN Ok(StrV(a))
    ELSE LET names == [i \in 1..Len(literals) |->
                          IF literals[i].k = "int"
                          THEN (IF literals[i].v = 1 THEN "1" ELSE "2")
                          ELSE literals[i].v]
         IN  Fail(BadArgument("Could not convert \"" \o a \o "\" into one of "
                    \o Join(", ", SubSeq(names, 1, Len(names) - 1))
                    \o ", or " \o names[Len(names)] \o "."))

\* the body of a function of the model run on the arguments it received:
\* the convert of the registry's class and of LiteralConverter as in
\* converters.py, the other async ones convert their last argument with
\* int, the others return the tuple of what they were called with
RunBody(f, received) ==
    IF f = "SnowflakeConverter" THEN SnowflakeConvert(received[Len(received)].v)
    ELSE IF f \in LiteralTypes
    THEN LiteralConvert(<< IntV(1), StrV("x") >>, received[Len(received)].v)
    ELSE IF f \in AsyncDefs THEN PyInt(received[Len(received)].v)
    ELSE Ok(TupleV(received))

\* f(*received): an async def returns a coroutine object without running
CallFunction(f, received) ==
    IF f \in AsyncDefs THEN Ok(CoroutineV(f, received))
    ELSE RunBody(f, received)

\* converter(ctx, arg) as a plain call
Invoke(c, a) ==
    CASE c.kind = "bool" -> _convert_to_bool(a)
      [] c.kind = "str" -> Ok(StrV(a))
      [] c.kind = "call" /\ c.anno = "int" -> PyInt(a)
      [] c.kind = "call" /\ c.anno = "str" -> Ok(StrV(a))
      [] c.kind = "registered" ->
            CallFunction(SNEK_OBJECT_TO_CONVERTER[c.anno], <<CtxV, StrV(a)>>)
      [] c.kind = "convert" -> CallFunction(c.anno, <<CtxV, StrV(a)>>)
      [] c.kind = "attr_convert" -> CallFunction(c.anno \o ".convert", <<CtxV, StrV(a)>>)
      [] c.kind = "literal" -> CallFunction(c.anno, <<CtxV, StrV(a)>>)
      [] c.kind = "ctx_arg" -> CallFunction(c.anno, <<CtxV, StrV(a)>>)
      [] c.kind = "arg" -> CallFunction(c.anno, <<StrV(a)>>)
      [] c.kind = "no_args" -> CallFunction(c.anno, <<>>)
      [] c.kind = "None" ->
            Fail(Raised("TypeError", "'NoneType' object is not callable"))
      [] OTHER -> Fail(Raised("TypeError", "not callable"))

\* inspect.iscoroutinefunction(converter): true of the bound method convert
\* of a class whose convert is an async def, false of the lambdas
\* _get_converter wraps functions in
iscoroutinefunction(c) ==
    \/ c.kind = "convert" /\ c.anno \in AsyncDefs
    \/ c.kind \in {"registered", "literal"}

\* await of what a call returned: a coroutine object runs to completion
Await(r) ==
    IF r.ok /\ r.val.k = "coroutine" THEN RunBody(r.val.v[1], r.val.v[2]) ELSE r

\* await maybe_coroutine(converter, ctx, arg)
maybe_coroutine(c, a) ==
    IF iscoroutinefunction(c) THEN Await(Invoke(c, a)) ELSE Invoke(c, a)

\* the converter call of _convert
CallConverter(c, a) == maybe_coroutine(c, a)

_get_name(x) == x

(***************************************************************************)
(* The descriptor builder.  A declared parameter is what inspect.signature *)
(* reports: its annotation, its default (Empty when there is none) and its *)
(* kind.  An annotation is a (possibly Greedy-wrapped) list of             *)
(* alternatives: one alternative is a concrete type, two or more a Union.  *)
(***************************************************************************)
Empty == [k |-> "empty", v |-> 0]

Anno(g, alts) == [greedy |-> g, alts |-> alts]

Decl(anno, default, kind) == [anno |-> anno, default |-> default, kind |-> kind]

\* the positional parameters a handler declares in the model
PositionalDecls ==
    { Decl(Anno(FALSE, <<"int">>), Empty, "POSITIONAL_OR_KEYWORD"),
      Decl(Anno(FALSE, <<"bool">>), Empty, "POSITIONAL_OR_KEYWORD"),
      Decl(Anno(FALSE, <<"str">>), Empty, "POSITIONAL_OR_KEYWORD"),
      Decl(Anno(FALSE, <<"int">>), IntV(7), "POSITIONAL_OR_KEYWORD"),
      Decl(Anno(FALSE, <<"bool", "int">>), Empty, "POSITIONAL_OR_KEYWORD"),
      Decl(Anno(FALSE, <<"int", "NoneType">>), Empty, "POSITIONAL_OR_KEYWORD"),
      Decl(Anno(TRUE, <<"int">>), Empty, "POSITIONAL_OR_KEYWORD"),
      Decl(Anno(TRUE, <<"int">>), TupleV(<<IntV(9)>>), "POSITIONAL_OR_KEYWORD"),
      Decl(Anno(TRUE, <<"int">>), None, "POSITIONAL_OR_KEYWORD") }

VarDecls ==
    { Decl(Anno(FALSE, <<"int">>), Empty, "VAR_POSITIONAL"),
      Decl(Anno(FALSE, <<"int", "NoneType">>), Empty, "VAR_POSITIONAL") }

KeywordDecls ==
    { Decl(Anno(FALSE, <<"str">>), Empty, "KEYWORD_ONLY"),
      Decl(Anno(FALSE, <<"int">>), IntV(7), "KEYWORD_ONLY") }

Decls == PositionalDecls \cup VarDecls \cup KeywordDecls

ParamNames == <<"a", "b", "c", "d">>

\* the parameter lists Python accepts: positional parameters first, none
\* without a default after one with a default, then at most one *args, then
\* keyword-only parameters
ValidSignature(sig) ==
    /\ \A i \in 1..Len(sig) : \A j \in 1..Len(sig) :
          i < j =>
            /\ sig[i].kind = "VAR_POSITIONAL" => sig[j].kind = "KEYWORD_ONLY"
            /\ sig[i].kind = "KEYWORD_ONLY" => sig[j].kind = "KEYWORD_ONLY"
            /\ (/\ sig[i].kind = "POSITIONAL_OR_KEYWORD"
                /\ sig[j].kind = "POSITIONAL_OR_KEYWORD"
                /\ sig[i].default # Empty) => sig[j].default # Empty

Signatures ==
    { sig \in UNION { [1..n -> Decls] : n \in 0..MaxParams } : ValidSignature(sig) }

\* optional that takes every descriptor as having a default
optional_Always(param) == TRUE

\* CommandParameter.optional
optional(param) == param.default # MISSING

InAlts(t, alts) == \E i \in 1..Len(alts) : alts[i] = t

\* _greedy_parse that does not look at the kind of the parameter
_greedy_parse_raises_NoKind(anno, kind) ==
    \/ anno.alts \in {<<"NoneType">>, <<"str">>}
    \/ Len(anno.alts) >= 2 /\ InAlts("NoneType", anno.alts)

\* _greedy_parse raises ValueError exactly when this holds
_greedy_parse_raises(anno, kind) ==
    \/ kind \in {"KEYWORD_ONLY", "VAR_POSITIONAL"}
    \/ anno.alts \in {<<"NoneType">>, <<"str">>}
    \/ Len(anno.alts) >= 2 /\ InAlts("NoneType", anno.alts)

\* UnionConverters that builds a converter for None as well
UnionConverters_KeepNone(alts) == [k \in 1..Len(alts) |-> _get_converter(alts[k])]

\* the converters of a Union annotation, one per alternative that is not None
RECURSIVE UnionConverters(_)
UnionConverters(alts) ==
    IF alts = <<>> THEN <<>>
    ELSE IF Head(alts) # "NoneType"
         THEN <<_get_converter(Head(alts))>> \o UnionConverters(Tail(alts))
         ELSE UnionConverters(Tail(alts))

\* one pass of the loop of _get_params, up to the match on param.kind
BuildParam(name, d) ==
    LET default0 == IF d.default # Empty THEN d.default ELSE MISSING
        isUnion == Len(d.anno.alts) >= 2
        default1 == IF isUnion /\ InAlts("NoneType", d.anno.alts) /\ default0 = MISSING
                    THEN None ELSE default0
    IN  [ name |-> name,
          default |-> default1,
          type |-> d.anno,
          converters |-> IF isUnion THEN UnionConverters(d.anno.alts)
                         ELSE <<_get_converter(d.anno.alts[1])>>,
          greedy |-> d.anno.greedy,
          union |-> isUnion,
          variable |-> d.kind = "VAR_POSITIONAL",
          consume_rest |-> d.kind = "KEYWORD_ONLY" ]

\* BuildRaises without the test of the variadic parameter
BuildRaises_GreedyOnly(d) == d.anno.greedy /\ _greedy_parse_raises(d.anno, d.kind)

\* the ValueErrors of one pass of _get_params
BuildRaises(d) ==
    \/ d.anno.greedy /\ _greedy_parse_raises(d.anno, d.kind)
    \/ d.kind = "VAR_POSITIONAL" /\ optional(BuildParam("", d))

\* GetParamsFrom that goes on after a keyword-only or variadic parameter
RECURSIVE GetParamsFrom_NoBreak(_, _, _)
GetParamsFrom_NoBreak(sig, i, acc) ==
    IF i > Len(sig) THEN [err |-> NoError, params |-> acc]
    ELSE IF BuildRaises(sig[i])
    THEN [err |-> Raised("ValueError", "signature"), params |-> <<>>]
    ELSE GetParamsFrom_NoBreak(sig, i + 1, Append(acc, BuildParam(ParamNames[i], sig[i])))

\* _get_params(func): the descriptor list, or the ValueError it raises
RECURSIVE GetParamsFrom(_, _, _)
GetParamsFrom(sig, i, acc) ==
    IF i > Len(sig) THEN [err |-> NoError, params |-> acc]
    ELSE IF BuildRaises(sig[i])
    THEN [err |-> Raised("ValueError", "signature"), params |-> <<>>]
    ELSE IF sig[i].kind \in {"KEYWORD_ONLY", "VAR_POSITIONAL"}
    THEN [err |-> NoError, params |-> Append(acc, BuildParam(ParamNames[i], sig[i]))]
    ELSE GetParamsFrom(sig, i + 1, Append(acc, BuildParam(ParamNames[i], sig[i])))

_get_params(sig) == GetParamsFrom(sig, 1, <<>>)

\* typing.get_args(param.type) as names, for the message of _convert
union_names(type) == [i \in 1..Len(type.alts) |-> _get_name(type.alts[i])]

\* repr(param.type)
ReprType(type) ==
    LET inner == IF Len(type.alts) >= 2
                 THEN "typing.Union[" \o Join(", ", type.alts) \o "]"
                 ELSE type.alts[1]
    IN  IF type.greedy THEN "molter.converters.Greedy[" \o inner \o "]" ELSE inner

(***************************************************************************)
(* ArgsIterator.  Python indexes from 0 and counts a negative index from   *)
(* the end of the tuple.                                                   *)
(***************************************************************************)
\* ArgsIterator(args) followed by iter(): length is set by __iter__
ArgsIterator(tokens) == [args |-> tokens, index |-> 0, length |-> Len(tokens)]

\* seq[i] raises IndexError outside -len..len-1
IndexInRange(seq, i) == i >= 0 - Len(seq) /\ i < Len(seq)

PyIndex(seq, i) == IF i >= 0 THEN seq[i + 1] ELSE seq[Len(seq) + i + 1]

\* the 0-based position seq[i] reads
PyPos(seq, i) == IF i >= 0 THEN i ELSE Len(seq) + i

\* the 0-based position the slice seq[i:] starts at
PySliceStart(seq, i) ==
    IF i >= 0 THEN i ELSE IF Len(seq) + i >= 0 THEN Len(seq) + i ELSE 0

\* seq[i:]
PySliceFrom(seq, i) == SubSeq(seq, PySliceStart(seq, i) + 1, Len(seq))

\* ArgsIterator.consume_rest: the slice it returns and the iterator after it
consume_rest(it) ==
    [ result |-> PySliceFrom(it.args, it.index - 1),
      it |-> [it EXCEPT !.index = it.length] ]

\* back() that leaves the cursor where it is
back_NoRewind(it) == it

\* back() that rewinds over every token read so far
back_ToStart(it) == [it EXCEPT !.index = IF it.index > 0 THEN 0 ELSE it.index - 1]

\* ArgsIterator.back
back(it) == [it EXCEPT !.index = it.index - 1]

\* ArgsIterator.finished
finished(it) == it.index >= it.length

(***************************************************************************)
(* _convert: tries the converters of a descriptor in order on one token.   *)
(* tried lists the converters that were invoked.                           *)
(***************************************************************************)
\* union_types_str that leaves the last alternative out
union_types_str_NoLast(type) == union_names(type)[1]

union_types_str(type) ==
    LET names == IF type.greedy THEN <<ReprType(Anno(FALSE, type.alts))>>
                 ELSE union_names(type)
    IN  Join(", ", SubSeq(names, 1, Len(names) - 1)) \o ", or " \o names[Len(names)]

RECURSIVE ConvertLoop(_, _, _, _)

\* ConvertPass that lets the converter's own exception through
ConvertPass_NoWrap(param, a, i, tried, r) ==
    IF r.ok
    THEN [err |-> NoError, converted |-> r.val, tried |-> tried]
    ELSE IF ~param.union /\ ~optional(param)
    THEN [err |-> r.err, converted |-> MISSING, tried |-> tried]
    ELSE ConvertLoop(param, a, i + 1, tried)

\* one pass of "for converter in param.converters", r being the outcome of
\* the converter call
ConvertPass(param, a, i, tried, r) ==
    IF r.ok
    THEN [err |-> NoError, converted |-> r.val, tried |-> tried]
    ELSE IF ~param.union /\ ~optional(param)
    THEN [ err |-> IF r.err.exc = "BadArgument" THEN r.err
                   ELSE BadArgument(r.err.msg),
           converted |-> MISSING, tried |-> tried ]
    ELSE ConvertLoop(param, a, i + 1, tried)

ConvertLoop(param, a, i, tried) ==
    IF i > Len(param.converters)
    THEN [err |-> NoError, converted |-> MISSING, tried |-> tried]
    ELSE ConvertPass(param, a, i, Append(tried, param.converters[i]),
                     CallConverter(param.converters[i], a))

\* the part of _convert after the loop, l being what the loop left
ConvertResult(param, a, l) ==
    IF l.err # NoError
    THEN [err |-> l.err, converted |-> MISSING, used_default |-> FALSE,
          tried |-> l.tried]
    ELSE IF l.converted = MISSING
    THEN IF optional(param)
         THEN [err |-> NoError, converted |-> param.default, used_default |-> TRUE,
               tried |-> l.tried]
         ELSE [err |-> BadArgument("Could not convert \"" \o a \o "\" into "
                                     \o union_types_str(param.type) \o "."),
               converted |-> MISSING, used_default |-> FALSE, tried |-> l.tried]
    ELSE [err |-> NoError, converted |-> l.converted, used_default |-> FALSE,
          tried |-> l.tried]

\* _convert that tries the converters last to first
_convert_Reversed(param, a) ==
    ConvertResult(param, a,
        ConvertLoop([param EXCEPT !.converters =
                        [k \in 1..Len(param.converters) |->
                            param.converters[Len(param.converters) + 1 - k]]],
                    a, 1, <<>>))

_convert(param, a) == ConvertResult(param, a, ConvertLoop(param, a, 1, <<>>))

(***************************************************************************)
(* _greedy_convert                                                         *)
(***************************************************************************)
\* the "for arg in args" loop of _greedy_convert; given lists the tokens
\* handed to _convert
RECURSIVE GreedyLoop(_, _, _, _)

\* the body of that loop: it is the iterator after __next__, r what _convert
\* did with the token
GreedyPass(param, it, acc, given, r) ==
    IF r.err # NoError \/ r.used_default
    THEN [err |-> NoError, greedy_args |-> acc, broke_off |-> TRUE, it |-> it,
          given |-> given]
    ELSE GreedyLoop(param, it, Append(acc, r.converted), given)

GreedyLoop(param, it, acc, given) ==
    IF it.index >= it.length
    THEN [err |-> NoError, greedy_args |-> acc, broke_off |-> FALSE, it |-> it,
          given |-> given]
    ELSE IF ~IndexInRange(it.args, it.index)
    THEN [err |-> Raised("IndexError", "tuple index out of range"),
          greedy_args |-> acc, broke_off |-> FALSE, it |-> it, given |-> given]
    ELSE GreedyPass(param, [it EXCEPT !.index = it.index + 1], acc,
                    Append(given, PyIndex(it.args, it.index)),
                    _convert(param, PyIndex(it.args, it.index)))

\* the part of _greedy_convert after the loop
GreedyResult(param, l) ==
    IF l.err # NoError THEN l
    ELSE IF l.greedy_args = <<>>
    THEN IF Truthy(param.default)
         THEN [l EXCEPT !.greedy_args = param.default]
         ELSE [l EXCEPT !.err = BadArgument("Failed to find any arguments for "
                                    \o ReprType(param.type) \o ".")]
    ELSE [l EXCEPT !.greedy_args = ListV(l.greedy_args)]

_greedy_convert(param, it) == GreedyResult(param, GreedyLoop(param, back(it), <<>>, <<>>))

(***************************************************************************)
(* The state of one command: its registration and one call_callback run.   *)
(***************************************************************************)
VARIABLES
    pc,            \* "build", "ready", "for", "while", "after", "done"
    sig,           \* the handler's declared parameters
    ctx_args,      \* ctx.args, the tokens of the message
    ignore_extra,  \* MolterCommand.ignore_extra
    params,        \* MolterCommand.params
    args,          \* the ArgsIterator of the run
    arg,           \* the loop variable of "for arg in args"
    arg_pos,       \* the position of ctx.args that arg was read from
    param_index,
    new_args,
    kwargs,
    outcome,       \* how the run ended: the handler's arguments or the error
    hist,          \* one record per descriptor bound inside the token loop
    suspended,     \* the frame of a second run of the command, waiting at an
                   \* await while this one runs; NoFrame when there is none
    alone,         \* the tokens and outcomes of the runs that ran by themselves
    dispatch,      \* _dispatch_msg_commands for one message: where it is, the
                   \* text left, the command reached, what it awaited so far
    registry       \* the commands registered by add_command and
                   \* add_message_command, and the last call made on them

vars == << pc, sig, ctx_args, ignore_extra, params, args, arg, arg_pos,
           param_index, new_args, kwargs, outcome, hist, suspended, alone,
           dispatch, registry >>

\* MolterCommand.name
name == "cmd"

\* the tokens the tokenizer hands over, quotes included
RawTokens == {"1", "2", "\"x\""}

TokenLists == UNION { [1..n -> RawTokens] : n \in 0..MaxTokens }

NoOutcome == [kind |-> "none", err |-> NoError, args |-> <<>>, kwargs |-> <<>>]
Invoked(a, kw) == [kind |-> "invoked", err |-> NoError, args |-> a, kwargs |-> kw]
Raises(e) == [kind |-> "raised", err |-> e, args |-> <<>>, kwargs |-> <<>>]

\* the local variables of a call_callback coroutine that has not started,
\* for the message whose tokens are toks
ReadyFrame(toks) ==
    [ pc |-> "ready", ctx_args |-> toks, args |-> ArgsIterator(<<>>), arg |-> "",
      arg_pos |-> -1, param_index |-> 0, new_args |-> <<>>, kwargs |-> <<>>,
      outcome |-> NoOutcome, hist |-> <<>> ]

NoFrame == [ReadyFrame(<<>>) EXCEPT !.pc = "none"]

\* the commands of the bot: A and P are registered on the bot, B is a
\* subcommand of A and C one of B; P is a plain MessageCommand
MolterCommands == {"A", "B", "C"}
Commands == MolterCommands \cup {"P"}

\* Snake.commands
commands == ("a" :> "A") @@ ("p" :> "P")

\* MolterCommand.command_dict
command_dict(c) ==
    IF c = "A" THEN ("b" :> "B")
    ELSE IF c = "B" THEN ("c" :> "C")
    ELSE <<>>

\* MolterCommand.parent, "none" for a command registered on the bot
parent(c) ==
    IF \E q \in MolterCommands : \E w \in DOMAIN command_dict(q) : command_dict(q)[w] = c
    THEN CHOOSE q \in MolterCommands :
             \E w \in DOMAIN command_dict(q) : command_dict(q)[w] = c
    ELSE "none"

\* dict.get
Get(d, w) == IF w \in DOMAIN d THEN d[w] ELSE "none"

\* no message is being dispatched
NoDispatch ==
    [ pc |-> "none", content_parameters |-> <<>>, command |-> "self",
      enabled |-> [c \in Commands |-> TRUE],
      hierarchical_checking |-> [c \in MolterCommands |-> TRUE],
      trace |-> <<>> ]

\* the commands of the registry: Top, Sub, Leaf and Dup are MolterCommands,
\* Plain is a plain MessageCommand
RegistryCommands == {"Top", "Sub", "Leaf", "Dup"}

\* every command as it is constructed: command_dict = {} and parent = None;
\* the bot has no commands and no call has been made
NoRegistry ==
    [ command_dict |-> [c \in RegistryCommands |-> <<>>],
      parent |-> [c \in RegistryCommands |-> "none"],
      commands |-> <<>>,
      calls |-> 0,
      last |-> [op |-> "none", self |-> "none", cmd |-> "none", name |-> "",
                result |-> "none", err |-> NoError] ]

Init ==
    /\ pc = "build"
    /\ sig \in Signatures
    /\ ctx_args \in TokenLists
    /\ ignore_extra \in BOOLEAN
    /\ params = <<>>
    /\ args = ArgsIterator(<<>>)
    /\ arg = ""
    /\ arg_pos = -1
    /\ param_index = 0
    /\ new_args = <<>>
    /\ kwargs = <<>>
    /\ outcome = NoOutcome
    /\ hist = <<>>
    /\ suspended = NoFrame
    /\ alone = <<>>
    /\ dispatch = NoDispatch
    /\ registry = NoRegistry

\* MolterCommand(callback=func, ...): _fill_params calls _get_params
Build ==
    /\ pc = "build"
    /\ \E r \in {_get_params(sig)} :
           IF r.err # NoError
           THEN /\ pc' = "done"
                /\ outcome' = Raises(r.err)
                /\ UNCHANGED params
           ELSE /\ pc' = "ready"
                /\ params' = r.params
                /\ UNCHANGED outcome
    /\ UNCHANGED << registry, dispatch, suspended, alone, sig, ctx_args, ignore_extra, args, arg, arg_pos, param_index,
                    new_args, kwargs, hist >>

\* CallCallback that applies the extra-token test to a handler without
\* parameters
CallCallback_ExtraTest ==
    /\ pc = "ready"
    /\ IF Len(params) = 0
       THEN /\ pc' = "done"
            /\ outcome' = IF ~ignore_extra /\ ctx_args # <<>>
                           THEN Raises(BadArgument("Too many arguments passed to "
                                                   \o name \o "."))
                           ELSE Invoked(<<>>, <<>>)
            /\ UNCHANGED args
       ELSE /\ pc' = "for"
            /\ args' = ArgsIterator([i \in 1..Len(ctx_args) |-> _arg_fix(ctx_args[i])])
            /\ UNCHANGED outcome
    /\ new_args' = <<>>
    /\ kwargs' = <<>>
    /\ param_index' = 0
    /\ UNCHANGED << registry, dispatch, suspended, alone, sig, ctx_args, ignore_extra, params, arg, arg_pos, hist >>

\* call_callback up to the head of "for arg in args"
CallCallback ==
    /\ pc = "ready"
    /\ IF Len(params) = 0
       THEN /\ pc' = "done"
            /\ outcome' = Invoked(<<>>, <<>>)
            /\ UNCHANGED args
       ELSE /\ pc' = "for"
            /\ args' = ArgsIterator([i \in 1..Len(ctx_args) |-> _arg_fix(ctx_args[i])])
            /\ UNCHANGED outcome
    /\ new_args' = <<>>
    /\ kwargs' = <<>>
    /\ param_index' = 0
    /\ UNCHANGED << registry, dispatch, suspended, alone, sig, ctx_args, ignore_extra, params, arg, arg_pos, hist >>

\* ArgsIterator.__next__ at the head of "for arg in args"; the loop body does
\* nothing once every descriptor is bound
NextArg ==
    /\ pc = "for"
    /\ IF args.index >= args.length
       THEN /\ pc' = "after"
            /\ UNCHANGED << args, arg, arg_pos, outcome >>
       ELSE IF ~IndexInRange(args.args, args.index)
       THEN /\ pc' = "done"
            /\ outcome' = Raises(Raised("IndexError", "tuple index out of range"))
            /\ UNCHANGED << args, arg, arg_pos >>
       ELSE /\ arg' = PyIndex(args.args, args.index)
            /\ arg_pos' = PyPos(args.args, args.index)
            /\ args' = [args EXCEPT !.index = args.index + 1]
            /\ pc' = IF param_index < Len(params) THEN "while" ELSE "for"
            /\ UNCHANGED outcome
    /\ UNCHANGED << registry, dispatch, suspended, alone, sig, ctx_args, ignore_extra, params, param_index, new_args,
                    kwargs, hist >>

\* the descriptor the inner loop is at
param == params[param_index + 1]

\* "if param.consume_rest: arg = ' '.join(args.consume_rest())"
ConsumeRestArg(rest) == [arg |-> Join(" ", rest.result), it |-> rest.it]

AfterConsumeRest ==
    IF param.consume_rest THEN ConsumeRestArg(consume_rest(args))
    ELSE [arg |-> arg, it |-> args]

\* where the inner loop goes on "continue"
WhileHead(pi) == IF pi < Len(params) THEN "while" ELSE "for"

\* the record hist keeps of one pass of the inner loop: the descriptor, the
\* loop variable and the cursor before and after, the strings handed to
\* _convert, the converters invoked, the bound value, the position of the
\* first token handed over (start) and the positions whose conversion became
\* the value (taken)
Entry(mode, given, tried, it1, value, used, broke, start, taken) ==
    [ pi |-> param_index, mode |-> mode, arg |-> arg, arg_pos |-> arg_pos,
      index0 |-> args.index, index1 |-> it1.index, given |-> given,
      tried |-> tried, value |-> value, used_default |-> used,
      broke_off |-> broke, start |-> start, taken |-> taken ]

\* the positions the slice args[index - 1:] of consume_rest covers
RestStart(it) == PySliceStart(it.args, it.index - 1)
RestPositions(it) == RestStart(it)..(Len(it.args) - 1)

\* the positions _greedy_convert read and kept, n tokens from index - 1 on
GreedyPositions(it, n) == { PyPos(it.args, it.index - 1 + j) : j \in 0..(n - 1) }

\* _convert over args_to_convert, left to right, up to the first error
RECURSIVE ConvertAll(_, _, _)

ConvertOne(p, toks, acc, r) ==
    IF r.err # NoError THEN [err |-> r.err, values |-> acc]
    ELSE ConvertAll(p, Tail(toks), Append(acc, r.converted))

ConvertAll(p, toks, acc) ==
    IF toks = <<>> THEN [err |-> NoError, values |-> acc]
    ELSE ConvertOne(p, toks, acc, _convert(p, Head(toks)))

\* "if param.variable:" in the inner loop
BindVariable ==
    /\ pc = "while"
    /\ param.variable
    /\ \E c \in {AfterConsumeRest} :
       \E rest \in {consume_rest(c.it)} :
       \E r \in {ConvertAll(param, rest.result, <<>>)} :
           IF r.err # NoError
           THEN /\ pc' = "done"
                /\ outcome' = Raises(r.err)
                /\ UNCHANGED << args, arg, param_index, new_args, hist >>
           ELSE /\ args' = rest.it
                /\ arg' = c.arg
                /\ new_args' = Append(new_args, TupleV(r.values))
                /\ param_index' = param_index + 1
                /\ hist' = Append(hist, Entry("variable", rest.result, <<>>, rest.it,
                                              TupleV(r.values), FALSE, FALSE,
                                              RestStart(c.it), RestPositions(c.it)))
                /\ pc' = "for"
                /\ UNCHANGED outcome
    /\ UNCHANGED << registry, dispatch, suspended, alone, sig, ctx_args, ignore_extra, params, arg_pos, kwargs >>

\* "if param.greedy:" in the inner loop
BindGreedy ==
    /\ pc = "while"
    /\ ~param.variable
    /\ param.greedy
    /\ \E c \in {AfterConsumeRest} :
       \E g \in {_greedy_convert(param, c.it)} :
       \E it1 \in {IF g.broke_off THEN back(g.it) ELSE g.it} :
           IF g.err # NoError
           THEN /\ pc' = "done"
                /\ outcome' = Raises(g.err)
                /\ UNCHANGED << args, arg, param_index, new_args, hist >>
           ELSE /\ args' = it1
                /\ arg' = c.arg
                /\ new_args' = Append(new_args, g.greedy_args)
                /\ param_index' = param_index + 1
                /\ hist' = Append(hist, Entry("greedy", g.given, <<>>, it1,
                                  g.greedy_args, g.greedy_args.k # "list", g.broke_off,
                                  PyPos(c.it.args, c.it.index - 1),
                                  IF g.greedy_args.k # "list" THEN {}
                                  ELSE GreedyPositions(c.it, Len(g.greedy_args.v))))
                /\ pc' = IF Truthy(param.default) THEN WhileHead(param_index + 1)
                         ELSE "for"
                /\ UNCHANGED outcome
    /\ UNCHANGED << registry, dispatch, suspended, alone, sig, ctx_args, ignore_extra, params, arg_pos, kwargs >>

\* BindConvert that notes the error of _convert and goes on with the next token
BindConvert_GoesOn ==
    /\ pc = "while"
    /\ ~param.variable
    /\ ~param.greedy
    /\ \E c \in {AfterConsumeRest} :
       \E r \in {_convert(param, c.arg)} :
           IF r.err # NoError
           THEN /\ pc' = "for"
                /\ outcome' = Raises(r.err)
                /\ param_index' = param_index + 1
                /\ UNCHANGED << args, arg, new_args, kwargs, hist >>
           ELSE /\ args' = c.it
                /\ arg' = c.arg
                /\ IF ~param.consume_rest
                   THEN new_args' = Append(new_args, r.converted) /\ UNCHANGED kwargs
                   ELSE kwargs' = (param.name :> r.converted) @@ kwargs
                        /\ UNCHANGED new_args
                /\ param_index' = param_index + 1
                /\ hist' = Append(hist, Entry("convert", <<c.arg>>, r.tried, c.it,
                                  r.converted, r.used_default, FALSE,
                                  IF param.consume_rest THEN RestStart(args) ELSE arg_pos,
                                  IF r.used_default THEN {}
                                  ELSE IF param.consume_rest THEN RestPositions(args)
                                  ELSE {arg_pos}))
                /\ pc' = IF ~r.used_default THEN "for" ELSE WhileHead(param_index + 1)
                /\ UNCHANGED outcome
    /\ UNCHANGED << registry, dispatch, suspended, alone, sig, ctx_args, ignore_extra, params, arg_pos >>

\* the rest of the inner loop: _convert on the current token, or on the joined
\* rest for a consume_rest descriptor
BindConvert ==
    /\ pc = "while"
    /\ ~param.variable
    /\ ~param.greedy
    /\ \E c \in {AfterConsumeRest} :
       \E r \in {_convert(param, c.arg)} :
           IF r.err # NoError
           THEN /\ pc' = "done"
                /\ outcome' = Raises(r.err)
                /\ UNCHANGED << args, arg, param_index, new_args, kwargs, hist >>
           ELSE /\ args' = c.it
                /\ arg' = c.arg
                /\ IF ~param.consume_rest
                   THEN new_args' = Append(new_args, r.converted) /\ UNCHANGED kwargs
                   ELSE kwargs' = (param.name :> r.converted) @@ kwargs
                        /\ UNCHANGED new_args
                /\ param_index' = param_index + 1
                /\ hist' = Append(hist, Entry("convert", <<c.arg>>, r.tried, c.it,
                                  r.converted, r.used_default, FALSE,
                                  IF param.consume_rest THEN RestStart(args) ELSE arg_pos,
                                  IF r.used_default THEN {}
                                  ELSE IF param.consume_rest THEN RestPositions(args)
                                  ELSE {arg_pos}))
                /\ pc' = IF ~r.used_default THEN "for" ELSE WhileHead(param_index + 1)
                /\ UNCHANGED outcome
    /\ UNCHANGED << registry, dispatch, suspended, alone, sig, ctx_args, ignore_extra, params, arg_pos >>

\* the loop over self.params[param_index:] after the token loop
RECURSIVE FillDefaults(_, _, _)

\* FillDefaults that tests for a missing argument but binds no default
FillDefaults_NoAppend(i, na, kw) ==
    IF i > Len(params) THEN [err |-> NoError, new_args |-> na, kwargs |-> kw]
    ELSE IF ~optional(params[i])
    THEN [ err |-> BadArgument("Missing argument for " \o params[i].name \o "."),
           new_args |-> na, kwargs |-> kw ]
    ELSE FillDefaults(i + 1, na, kw)

\* FillDefaults that gives a variadic parameter without tokens the empty
\* tuple, as a Python call does for *args
FillDefaults_EmptyVariadic(i, na, kw) ==
    IF i > Len(params) THEN [err |-> NoError, new_args |-> na, kwargs |-> kw]
    ELSE IF params[i].variable
    THEN [err |-> NoError, new_args |-> Append(na, TupleV(<<>>)), kwargs |-> kw]
    ELSE IF ~optional(params[i])
    THEN [ err |-> BadArgument("Missing argument for " \o params[i].name \o "."),
           new_args |-> na, kwargs |-> kw ]
    ELSE IF ~params[i].consume_rest
    THEN FillDefaults(i + 1, Append(na, params[i].default), kw)
    ELSE [ err |-> NoError, new_args |-> na,
           kwargs |-> (params[i].name :> params[i].default) @@ kw ]

FillDefaults(i, na, kw) ==
    IF i > Len(params) THEN [err |-> NoError, new_args |-> na, kwargs |-> kw]
    ELSE IF ~optional(params[i])
    THEN [ err |-> BadArgument("Missing argument for " \o params[i].name \o "."),
           new_args |-> na, kwargs |-> kw ]
    ELSE IF ~params[i].consume_rest
    THEN FillDefaults(i + 1, Append(na, params[i].default), kw)
    ELSE [ err |-> NoError, new_args |-> na,
           kwargs |-> (params[i].name :> params[i].default) @@ kw ]

\* call_callback after the token loop: defaults, the extra-token test, the call
Finish ==
    /\ pc = "after"
    /\ pc' = "done"
    /\ IF param_index < Len(params)
       THEN \E f \in {FillDefaults(param_index + 1, new_args, kwargs)} :
                IF f.err # NoError
                THEN outcome' = Raises(f.err) /\ UNCHANGED << new_args, kwargs >>
                ELSE /\ new_args' = f.new_args
                     /\ kwargs' = f.kwargs
                     /\ outcome' = Invoked(f.new_args, f.kwargs)
       ELSE IF ~ignore_extra /\ ~finished(args)
       THEN /\ outcome' = Raises(BadArgument("Too many arguments passed to "
                                               \o name \o "."))
            /\ UNCHANGED << new_args, kwargs >>
       ELSE /\ outcome' = Invoked(new_args, kwargs)
            /\ UNCHANGED << new_args, kwargs >>
    /\ UNCHANGED << registry, dispatch, suspended, alone, sig, ctx_args, ignore_extra, params, args, arg, arg_pos,
                    param_index, hist >>

Next ==
    \/ Build
    \/ CallCallback
    \/ NextArg
    \/ BindVariable
    \/ BindGreedy
    \/ BindConvert
    \/ Finish

Spec == Init /\ [][Next]_vars

(***************************************************************************)
(* Properties of the binder.                                               *)
(***************************************************************************)
\* the positions of the token list
Positions == 0..(Len(args.args) - 1)

\* the token at a position
TokenAt(p) == args.args[p + 1]

\* the positions no descriptor took a value from
Unconsumed == { p \in Positions : \A i \in 1..Len(hist) : p \notin hist[i].taken }

\* the run ended after every descriptor was bound inside the token loop
AllBound == pc = "done" /\ params # <<>> /\ param_index = Len(params)

\* C1: when every descriptor has been bound and some token was consumed by no
\* descriptor, a run with ignore_extra = False raises BadArgument "Too many
\* arguments passed to <command name>." and does not invoke the handler.
C1_TooManyArguments ==
    (AllBound /\ ~ignore_extra /\ Unconsumed # {})
        => outcome = Raises(BadArgument("Too many arguments passed to " \o name \o "."))

\* the converter of p that first converts the token t, 0 when none does
FirstOk(p, t) ==
    IF \E k \in 1..Len(p.converters) : CallConverter(p.converters[k], t).ok
    THEN CHOOSE k \in 1..Len(p.converters) :
            /\ CallConverter(p.converters[k], t).ok
            /\ \A j \in 1..(k - 1) : ~CallConverter(p.converters[j], t).ok
    ELSE 0

\* the value the first converting converter of p gives for t
ValueOf(p, t) == CallConverter(p.converters[FirstOk(p, t)], t).val

\* the length of the longest run of tokens from position s on that p converts
RunLength(p, s) ==
    CHOOSE n \in 0..(Len(args.args) - s) :
        /\ \A j \in 0..(n - 1) : FirstOk(p, TokenAt(s + j)) # 0
        /\ s + n = Len(args.args) \/ FirstOk(p, TokenAt(s + n)) = 0

\* the converted values of the n tokens from position s on
ValuesFrom(p, s, n) == [j \in 1..n |-> ValueOf(p, TokenAt(s + j - 1))]

\* C2: a Greedy descriptor without a default starts at the current token and
\* binds, in token order, the converted values of the longest run of tokens
\* that convert; the cursor then rests on the first token that failed (or at
\* the end) and that token is the one handed to the following descriptor.
C2_GreedyRun ==
    \A i \in 1..Len(hist) :
        (hist[i].mode = "greedy" /\ params[hist[i].pi + 1].default = MISSING) =>
            /\ hist[i].start = hist[i].arg_pos
            /\ RunLength(params[hist[i].pi + 1], hist[i].start) >= 1
            /\ hist[i].value =
                 ListV(ValuesFrom(params[hist[i].pi + 1], hist[i].start,
                                  RunLength(params[hist[i].pi + 1], hist[i].start)))
            /\ hist[i].index1 =
                 hist[i].start + RunLength(params[hist[i].pi + 1], hist[i].start)
            /\ i < Len(hist) =>
                 /\ hist[i + 1].start = hist[i].index1
                 /\ hist[i + 1].arg = TokenAt(hist[i].index1)

\* C2 witness: tokens 1 2 x bind [1, 2] to an integer Greedy and x to the
\* string descriptor after it
C2_Witness ==
    /\ Len(hist) = 2
    /\ hist[1].mode = "greedy"
    /\ params[1].default = MISSING
    /\ hist[1].value = ListV(<<IntV(1), IntV(2)>>)
    /\ hist[2].value = StrV("x")

\* C3: when a Greedy descriptor with a default accumulated at least one value
\* and stopped at a token that failed conversion, the next descriptor bound is
\* handed that failing token.
C3_GreedyPushBack ==
    \A i \in 1..(Len(hist) - 1) :
        (/\ hist[i].mode = "greedy"
         /\ optional(params[hist[i].pi + 1])
         /\ ~hist[i].used_default
         /\ hist[i].broke_off) =>
            /\ hist[i + 1].start = hist[i].start + Len(hist[i].value.v)
            /\ ~params[hist[i + 1].pi + 1].consume_rest =>
                 hist[i + 1].given[1] = TokenAt(hist[i].start + Len(hist[i].value.v))

\* C4: a Greedy descriptor that accumulates nothing is bound to its declared
\* default whenever one was declared, whatever the default is; "Failed to find
\* any arguments for <type>." is raised only for a Greedy without a default.
C4_GreedyDefault ==
    /\ \A i \in 1..Len(hist) :
          (hist[i].mode = "greedy" /\ hist[i].used_default) =>
              hist[i].value = params[hist[i].pi + 1].default
    /\ (/\ pc = "done"
        /\ outcome.kind = "raised"
        /\ param_index < Len(params)
        /\ param.greedy
        /\ outcome.err = BadArgument("Failed to find any arguments for "
                                       \o ReprType(param.type) \o "."))
          => param.default = MISSING

\* C5: a Plain or Union descriptor with a default that fails on the current
\* token is bound to its default without moving the cursor and the following
\* descriptor is handed the same token; when it converts the token, the
\* following descriptor is handed the next token.
C5_OptionalSkip ==
    \A i \in 1..Len(hist) :
        (/\ hist[i].mode = "convert"
         /\ ~params[hist[i].pi + 1].consume_rest
         /\ optional(params[hist[i].pi + 1])) =>
            IF hist[i].used_default
            THEN /\ hist[i].value = params[hist[i].pi + 1].default
                 /\ hist[i].index1 = hist[i].index0
                 /\ i < Len(hist) => hist[i + 1].start = hist[i].start
            ELSE i < Len(hist) => hist[i + 1].start = hist[i].start + 1

\* the descriptors left when the token loop ends
Remaining == (param_index + 1)..Len(params)

IsPositional(q) == ~q.consume_rest

\* the defaults of the positional descriptors left, in descriptor order
RemainingDefaults ==
    [ j \in 1..Len(SelectSeq(SubSeq(params, param_index + 1, Len(params)), IsPositional))
        |-> SelectSeq(SubSeq(params, param_index + 1, Len(params)), IsPositional)[j].default ]

RemainingKwargs ==
    IF \E i \in Remaining : params[i].consume_rest
    THEN (params[Len(params)].name :> params[Len(params)].default) @@ kwargs
    ELSE kwargs

C7_Variadic ==
    \A i \in 1..Len(hist) :
        hist[i].mode = "variable" =>
            /\ hist[i].start = hist[i].arg_pos
            /\ hist[i].index1 = Len(args.args)
            /\ hist[i].value =
                 TupleV(ValuesFrom(params[hist[i].pi + 1], hist[i].arg_pos,
                                   Len(args.args) - hist[i].arg_pos))
            /\ Unconsumed \cap (hist[i].arg_pos..(Len(args.args) - 1)) = {}

\* C8: a ConsumeRest descriptor, whatever precedes it, converts the current
\* token and all tokens after it joined by single spaces, leaves no token
\* unconsumed, and its value reaches the handler as the keyword argument of
\* the parameter's name.
C8_ConsumeRest ==
    \A i \in 1..Len(hist) :
        (hist[i].mode = "convert" /\ params[hist[i].pi + 1].consume_rest) =>
            /\ hist[i].start = hist[i].arg_pos
            /\ hist[i].given =
                 << Join(" ", SubSeq(args.args, hist[i].arg_pos + 1, Len(args.args))) >>
            /\ hist[i].index1 = Len(args.args)
            /\ (pc = "done" /\ outcome.kind = "invoked") =>
                 /\ DOMAIN outcome.kwargs = {params[hist[i].pi + 1].name}
                 /\ outcome.kwargs[params[hist[i].pi + 1].name] = hist[i].value

\* C9: for a Plain or Union descriptor the converters are invoked in
\* declaration order up to the first that converts the token, whose result is
\* the bound value; the failures before it are swallowed and the converters
\* after it are not invoked.
C9_FirstConverterWins ==
    \A i \in 1..Len(hist) :
        hist[i].mode = "convert" =>
            IF FirstOk(params[hist[i].pi + 1], hist[i].given[1]) # 0
            THEN /\ hist[i].tried =
                      SubSeq(params[hist[i].pi + 1].converters, 1,
                             FirstOk(params[hist[i].pi + 1], hist[i].given[1]))
                 /\ hist[i].value = ValueOf(params[hist[i].pi + 1], hist[i].given[1])
                 /\ ~hist[i].used_default
            ELSE /\ hist[i].tried = params[hist[i].pi + 1].converters
                 /\ hist[i].used_default

\* C9 witness: two Union[bool, int] descriptors and the tokens 1 2: the first
\* binds True from its first converter alone, the second binds 2 after its
\* first converter failed
C9_Witness ==
    /\ Len(hist) = 2
    /\ params[1].union /\ params[2].union
    /\ Len(hist[1].tried) = 1 /\ hist[1].value = BoolV(TRUE)
    /\ Len(hist[2].tried) = 2 /\ hist[2].value = IntV(2)

\* C10: a Union descriptor with alternatives A, B and no default, on a token
\* neither converts, makes the run raise a BadArgument whose message names
\* the token, A and B; the handler is not invoked.
C10_UnionFailure ==
    [][ (/\ pc = "while"
         /\ param.union /\ ~param.greedy /\ ~param.variable /\ ~param.consume_rest
         /\ param.default = MISSING
         /\ Len(param.type.alts) = 2
         /\ \A k \in 1..Len(param.converters) :
               ~CallConverter(param.converters[k], arg).ok) =>
          outcome' = Raises(BadArgument("Could not convert \"" \o arg \o "\" into "
                              \o param.type.alts[1] \o ", or " \o param.type.alts[2]
                              \o ".")) ]_vars

\* C10 witness: Union[bool, int] on the token x
C10_Witness ==
    /\ pc = "done"
    /\ outcome = Raises(BadArgument("Could not convert \"x\" into bool, or int."))

\* the tokens the pass of the inner loop at a required Plain or Variadic
\* descriptor hands to the converter, in the order it converts them
TokensToConvert == IF param.variable THEN consume_rest(args).result ELSE <<arg>>

\* the failure of the first token of toks that the converter c rejects
RECURSIVE FirstFailure(_, _)
FirstFailure(c, toks) ==
    IF toks = <<>> THEN NoError
    ELSE IF ~CallConverter(c, Head(toks)).ok THEN CallConverter(c, Head(toks)).err
    ELSE FirstFailure(c, Tail(toks))

\* C11: at a descriptor that is neither Union nor optional (a required Plain
\* or a Variadic one) the first converter failure ends the run: the run
\* raises that failure itself when it is a BadArgument, otherwise a
\* BadArgument with the failure's message, and the handler is not invoked.
C11_FirstFailureAborts ==
    [][ (/\ pc = "while"
         /\ ~param.union /\ ~optional(param)
         /\ ~param.greedy /\ ~param.consume_rest
         /\ FirstFailure(param.converters[1], TokensToConvert) # NoError) =>
          /\ pc' = "done"
          /\ outcome'.kind = "raised"
          /\ outcome'.err.exc = "BadArgument"
          /\ outcome'.err.msg =
                FirstFailure(param.converters[1], TokensToConvert).msg ]_vars

\* C11 witness: a required int descriptor on the token x: int's ValueError
\* reaches the caller as a BadArgument with the same message
C11_Witness ==
    /\ pc = "done"
    /\ Len(params) = 1
    /\ ~params[1].union /\ ~params[1].greedy /\ ~params[1].variable
    /\ params[1].default = MISSING
    /\ ctx_args = <<"\"x\"">>
    /\ outcome = Raises([exc |-> "BadArgument",
                         msg |-> "invalid literal for int() with base 10: 'x'"])

\* a value that is a coroutine object, or a list or tuple holding one
IsCoroutine(x) ==
    \/ x.k = "coroutine"
    \/ x.k \in {"list", "tuple"} /\ \E j \in 1..Len(x.v) : x.v[j].k = "coroutine"

\* C12: whether a converter is synchronous or asynchronous (a plain async
\* function used as a parameter's type included), what is bound to the
\* parameter is the converter's completed result: when the token converts,
\* the value is the result and never a pending coroutine; when the converter
\* fails on the token, the descriptor does not bind a converted value.
C12_CompletedResult ==
    \A i \in 1..Len(hist) :
        (hist[i].mode = "convert" /\ Len(params[hist[i].pi + 1].converters) = 1) =>
            /\ ~IsCoroutine(hist[i].value)
            /\ (/\ params[hist[i].pi + 1].type.alts[1] \in AsyncDefs
                /\ ~hist[i].used_default) =>
                  hist[i].value = PyInt(hist[i].given[1]).val

\* the descriptors (by their place in params) that are not ConsumeRest, and
\* the ConsumeRest ones
PositionalPlaces == { i \in 1..Len(params) : ~params[i].consume_rest }
ConsumeRestPlaces == { i \in 1..Len(params) : params[i].consume_rest }

\* the value descriptor i was bound to: the one bound inside the token loop,
\* or the default bound after it
BoundValue(i) ==
    IF \E h \in 1..Len(hist) : hist[h].pi = i - 1
    THEN hist[CHOOSE h \in 1..Len(hist) : hist[h].pi = i - 1].value
    ELSE params[i].default

\* how many positional descriptors come before or at place i
Rank(i) == Cardinality({ j \in PositionalPlaces : j <= i })

\* C14: when the handler is invoked, every descriptor has exactly one bound
\* value: there are as many positional arguments as descriptors that are not
\* ConsumeRest, in descriptor order, and the value of a ConsumeRest
\* descriptor is the one keyword argument, under the parameter's name.
C14_OneValueEach ==
    (pc = "done" /\ outcome.kind = "invoked") =>
        /\ \A g \in 1..Len(hist) : \A h \in 1..Len(hist) :
              hist[g].pi = hist[h].pi => g = h
        /\ Len(outcome.args) = Cardinality(PositionalPlaces)
        /\ \A i \in PositionalPlaces : outcome.args[Rank(i)] = BoundValue(i)
        /\ DOMAIN outcome.kwargs = { params[i].name : i \in ConsumeRestPlaces }
        /\ \A i \in ConsumeRestPlaces : outcome.kwargs[params[i].name] = BoundValue(i)

\* C14 witness: (a: int, *, b: int = 7) on the one token 1: a is bound in the
\* token loop, b to its default after it
C14_Witness ==
    /\ pc = "done"
    /\ Len(params) = 2
    /\ params[2].consume_rest
    /\ Len(hist) = 1
    /\ outcome = Invoked(<<IntV(1)>>, "b" :> IntV(7))

\* the declared parameters typed with the plain function f
TypedWith(f) == { i \in 1..Len(sig) : InAlts(f, sig[i].anno.alts) }

\* what a function of n parameters is to be called with for the token t
ExpectedCall(n, t) ==
    CASE n = 2 -> <<CtxV, StrV(t)>>
      [] n = 1 -> <<StrV(t)>>
      [] OTHER -> <<>>

\* C15: building the descriptors of a parameter typed with a plain function
\* of more than 2 parameters raises ValueError at build time; a function of
\* 2, 1 or 0 parameters is called with (context, token), (token) or nothing.
C15_FunctionConverters ==
    /\ (pc # "build" /\ TypedWith("fn3") # {}) =>
          outcome.kind = "raised" /\ outcome.err.exc = "ValueError"
    /\ \A h \in 1..Len(hist) :
          (/\ hist[h].mode = "convert"
           /\ params[hist[h].pi + 1].type.alts \in {<<"fn0">>, <<"fn1">>, <<"fn2">>}) =>
              hist[h].value =
                TupleV(ExpectedCall(num_params(params[hist[h].pi + 1].type.alts[1]),
                                    hist[h].given[1]))

\* the declared variadic parameters that are optional: one with a default, or
\* one whose type includes NoneType
OptionalVariadic ==
    { i \in 1..Len(sig) :
        /\ sig[i].kind = "VAR_POSITIONAL"
        /\ \/ sig[i].default # Empty
           \/ Len(sig[i].anno.alts) >= 2 /\ InAlts("NoneType", sig[i].anno.alts) }

\* C16: building the descriptors of a signature whose variadic parameter is
\* optional raises ValueError at build time, and no descriptor list a run
\* binds against holds a Variadic descriptor that is optional.
C16_NoOptionalVariadic ==
    /\ (pc # "build" /\ OptionalVariadic # {}) =>
          /\ outcome.kind = "raised" /\ outcome.err.exc = "ValueError"
          /\ params = <<>>
          /\ hist = <<>>
    /\ \A i \in 1..Len(params) : params[i].variable => ~optional(params[i])

\* C16 witness: (a: int, *b: Optional[int]) is refused at build time
C16_Witness ==
    /\ pc = "done"
    /\ Len(sig) = 2
    /\ sig[1].kind = "POSITIONAL_OR_KEYWORD"
    /\ OptionalVariadic = {2}
    /\ outcome.kind = "raised" /\ outcome.err.exc = "ValueError"

\* the declared Greedy[X] parameters the claim C17 says are refused
RefusedGreedy ==
    { i \in 1..Len(sig) :
        /\ sig[i].anno.greedy
        /\ \/ sig[i].kind \in {"KEYWORD_ONLY", "VAR_POSITIONAL"}
           \/ sig[i].anno.alts = <<"NoneType">>
           \/ sig[i].anno.alts = <<"str">>
           \/ Len(sig[i].anno.alts) >= 2 /\ InAlts("NoneType", sig[i].anno.alts) }

\* the converters of the type X, one per alternative
ConvertersOf(alts) == [k \in 1..Len(alts) |-> _get_converter(alts[k])]

\* C17: building raises ValueError when a parameter annotated Greedy[X] is
\* keyword-only or variadic, when X is NoneType or str, or when X is a union
\* that includes NoneType; any other Greedy[X] on a positional parameter
\* gives a descriptor marked greedy whose converters are those of X.
C17_GreedyDeclarations ==
    /\ (pc # "build" /\ RefusedGreedy # {}) =>
          outcome.kind = "raised" /\ outcome.err.exc = "ValueError"
    /\ (pc # "build" /\ RefusedGreedy = {} /\ outcome.err.exc # "ValueError") =>
          \A i \in 1..Len(sig) :
              sig[i].anno.greedy =>
                  /\ i <= Len(params)
                  /\ params[i].greedy
                  /\ params[i].converters = ConvertersOf(sig[i].anno.alts)

\* the declared parameters that follow a variadic or keyword-only parameter
AfterLast ==
    { j \in 1..Len(sig) :
        \E i \in 1..(j - 1) : sig[i].kind \in {"VAR_POSITIONAL", "KEYWORD_ONLY"} }

\* C18: building the descriptors of a signature that declares a parameter
\* after its variadic or keyword-only parameter raises ValueError at build
\* time and gives no descriptor list.
C18_NothingAfterLast ==
    (pc # "build" /\ AfterLast # {}) =>
        /\ outcome.kind = "raised" /\ outcome.err.exc = "ValueError"
        /\ params = <<>>

\* the descriptors with variable or consume_rest set
LastModePlaces ==
    { i \in 1..Len(params) : params[i].variable \/ params[i].consume_rest }

\* C19: a descriptor list _get_params returns holds at most one descriptor
\* with variable or consume_rest set, and that one is its last element.
C19_LastDescriptor ==
    /\ Cardinality(LastModePlaces) <= 1
    /\ \A i \in LastModePlaces : i = Len(params)

\* C19 witness: the handler declares two keyword-only parameters and the
\* list built for it ends with the one ConsumeRest descriptor
C19_Witness ==
    /\ pc = "ready"
    /\ Len(sig) = 2
    /\ sig[1].kind = "KEYWORD_ONLY" /\ sig[2].kind = "KEYWORD_ONLY"
    /\ Len(params) = 1
    /\ params[1].consume_rest

\* the mode flags set in a descriptor
ModeFlags(q) ==
    { f \in {"greedy", "union", "variable", "consume_rest"} :
        \/ f = "greedy" /\ q.greedy
        \/ f = "union" /\ q.union
        \/ f = "variable" /\ q.variable
        \/ f = "consume_rest" /\ q.consume_rest }

\* C20 as stated: in every descriptor the builder produces at most one of
\* greedy, union, variable and consume_rest is set.
C20_ExactlyOneMode ==
    \A i \in 1..Len(params) : Cardinality(ModeFlags(params[i])) <= 1

\* C20 as amended: in every descriptor the builder produces at most one of
\* greedy, variable and consume_rest is set; union may be set alone or
\* together with any one of them.
C20_ModesExclusive ==
    \A i \in 1..Len(params) : Cardinality(ModeFlags(params[i]) \ {"union"}) <= 1

\* C20 witness: descriptors with union set together with greedy and together
\* with consume_rest
C20_Witness ==
    /\ Len(params) = 2
    /\ ModeFlags(params[1]) = {"greedy", "union"}
    /\ ModeFlags(params[2]) = {"union", "consume_rest"}

NotNone(t) == t # "NoneType"

\* C22: for a Union-typed parameter the builder makes one converter per
\* alternative that is not None, in declaration order; with None among the
\* alternatives and no declared default the descriptor's default is None and
\* the descriptor is optional; a declared default is kept as it is.
C22_UnionDescriptor ==
    \A i \in 1..Len(params) :
        Len(sig[i].anno.alts) >= 2 =>
            /\ params[i].union
            /\ params[i].converters = ConvertersOf(SelectSeq(sig[i].anno.alts, NotNone))
            /\ params[i].default =
                  IF sig[i].default # Empty THEN sig[i].default
                  ELSE IF InAlts("NoneType", sig[i].anno.alts) THEN None
                  ELSE MISSING
            /\ (sig[i].default = Empty /\ InAlts("NoneType", sig[i].anno.alts)) =>
                  optional(params[i])

\* C22 witness: (a: Union[None, bool, int], b: Optional[int] = 7): a has the
\* converters of bool and int and the default None, b keeps its default 7
C22_Witness ==
    /\ Len(params) = 2
    /\ sig[1].anno.alts = <<"NoneType", "bool", "int">>
    /\ Len(params[1].converters) = 2
    /\ params[1].default = None
    /\ sig[2].anno.alts = <<"int", "NoneType">>
    /\ params[2].default = IntV(7)

\* the positions whose conversion became a bound value
Taken == UNION { hist[i].taken : i \in 1..Len(hist) }

\* the positions the cursor had not passed when the last descriptor was bound
Leftover ==
    IF hist = <<>> THEN {} ELSE { p \in Positions : p >= hist[Len(hist)].index1 }

\* C23: with ignore_extra = True, when tokens are left over after every
\* descriptor is bound, the run raises nothing and invokes the handler with
\* the values bound so far, all of which come from tokens before the
\* leftover ones.
C23_ExtrasDropped ==
    (AllBound /\ ignore_extra /\ Leftover # {}) =>
        /\ outcome = Invoked(new_args, kwargs)
        /\ \A p \in Taken : \A q \in Leftover : p < q

\* call_callback ran for a handler whose descriptor list is empty
EmptyRun == pc = "done" /\ params = <<>> /\ _get_params(sig).err = NoError

Takers(p) == { i \in 1..Len(hist) : p \in hist[i].taken }

\* C26: in a binding run each token position is successfully converted for at
\* most one descriptor: a token that became part of a Greedy sequence, a Plain
\* or Union value, a Variadic element or the ConsumeRest string is not
\* converted again for another descriptor.
C26_TokenUsedOnce ==
    \A p \in Positions : Cardinality(Takers(p)) <= 1

\* C27: at every step of a binding run the cursor index is between 0 and the
\* number of tokens, so back() is never applied at index 0, no token is read
\* through a negative index and consume_rest never slices from a negative
\* start.
C27_CursorInRange ==
    /\ 0 <= args.index /\ args.index <= args.length
    /\ (pc = "while" /\ (param.greedy \/ param.variable \/ param.consume_rest))
           => args.index >= 1

\* C28: in one run of call_callback the handler is invoked at most once and
\* only when every descriptor has its value; once the run has raised, or has
\* invoked the handler, nothing else happens in it, so the handler is never
\* invoked after a BadArgument.
C28_InvokedAtMostOnce ==
    [][ /\ outcome.kind # "none" => outcome' = outcome
        /\ outcome'.kind = "invoked" =>
               /\ pc' = "done"
               /\ Len(new_args') + Cardinality(DOMAIN kwargs') = Len(params') ]_vars

\* a run that raised BadArgument after it had bound a descriptor
C28_Witness ==
    /\ pc = "done" /\ outcome.kind = "raised" /\ outcome.err.exc = "BadArgument"
    /\ Len(hist) = 1 /\ Len(params) = 2

\* the number of steps a run can still take, at most: a descriptor is worth
\* three steps, since binding it moves the cursor back by one token at most
StepsLeft ==
    IF pc = "build" THEN 3 * Len(sig) + Len(ctx_args) + 5
    ELSE IF pc = "ready" THEN 3 * Len(params) + Len(ctx_args) + 4
    ELSE IF pc \in {"for", "while"}
    THEN 3 * (Len(params) - param_index) + (args.length - args.index)
         + (IF pc = "for" THEN 3 ELSE 2)
    ELSE IF pc = "after" THEN 1
    ELSE 0

\* C29: every run of call_callback ends after finitely many steps, raising or
\* invoking the handler: a run that has not ended can take a step (inside the
\* inner loop there is a descriptor to bind, and the three ways of binding
\* cover every descriptor), every step lowers the number of steps left, which
\* is never negative, and the rewinds of back() are paid for by the
\* descriptor they bind.
C29_Terminates ==
    /\ [](pc \in {"build", "ready", "for", "while", "after", "done"})
    /\ [](pc \in {"build", "ready", "for", "after"}
             => ENABLED (Build \/ CallCallback \/ NextArg \/ Finish))
    /\ [](pc = "while" => param_index < Len(params))
    /\ [](pc = "done" => outcome.kind \in {"invoked", "raised"})
    /\ [][StepsLeft' < StepsLeft /\ StepsLeft' >= 0]_vars

\* a run that ended although two Greedy descriptors moved the cursor back
C29_Witness ==
    /\ pc = "done" /\ outcome.kind = "invoked"
    /\ Len(hist) = 2
    /\ \A i \in 1..2 : hist[i].mode = "greedy" /\ hist[i].broke_off

\* the token loop is over and the Variadic descriptor has not been reached
VariadicUnreached ==
    /\ pc = "after"
    /\ param_index < Len(params)
    /\ params[Len(params)].variable

\* the first descriptor from place i on that has no default
RECURSIVE FirstRequired(_)
FirstRequired(i) == IF ~optional(params[i]) THEN i ELSE FirstRequired(i + 1)

DefaultSignatures ==
    { s \in [1..(MaxParams + 1) -> Decls] :
        /\ ValidSignature(s)
        /\ \A i \in 1..MaxParams :
              s[i].kind = "POSITIONAL_OR_KEYWORD" /\ s[i].default # Empty }

InitDefaults ==
    /\ pc = "build"
    /\ sig \in DefaultSignatures
    /\ ctx_args \in TokenLists
    /\ ignore_extra \in BOOLEAN
    /\ params = <<>>
    /\ args = ArgsIterator(<<>>)
    /\ arg = ""
    /\ arg_pos = -1
    /\ param_index = 0
    /\ new_args = <<>>
    /\ kwargs = <<>>
    /\ outcome = NoOutcome
    /\ hist = <<>>
    /\ suspended = NoFrame
    /\ alone = <<>>
    /\ dispatch = NoDispatch
    /\ registry = NoRegistry

SpecDefaults == InitDefaults /\ [][Next]_vars

(***************************************************************************)
(* Runs of handlers whose parameters are typed with plain functions, with  *)
(* a converter class and with the forms of Greedy[...].                    *)
(***************************************************************************)
TypeDecls ==
    { Decl(Anno(FALSE, <<"fn0">>), Empty, "POSITIONAL_OR_KEYWORD"),
      Decl(Anno(FALSE, <<"fn1">>), Empty, "POSITIONAL_OR_KEYWORD"),
      Decl(Anno(FALSE, <<"fn2">>), Empty, "POSITIONAL_OR_KEYWORD"),
      Decl(Anno(FALSE, <<"fn3">>), Empty, "POSITIONAL_OR_KEYWORD"),
      Decl(Anno(FALSE, <<"afn1">>), Empty, "POSITIONAL_OR_KEYWORD"),
      Decl(Anno(FALSE, <<"AConv">>), Empty, "POSITIONAL_OR_KEYWORD"),
      Decl(Anno(FALSE, <<"afn1">>), IntV(7), "POSITIONAL_OR_KEYWORD"),
      Decl(Anno(FALSE, <<"int", "NoneType">>), IntV(7), "POSITIONAL_OR_KEYWORD"),
      Decl(Anno(FALSE, <<"NoneType", "bool", "int">>), Empty, "POSITIONAL_OR_KEYWORD"),
      Decl(Anno(FALSE, <<"bool", "int">>), Empty, "POSITIONAL_OR_KEYWORD"),
      Decl(Anno(TRUE, <<"int">>), Empty, "POSITIONAL_OR_KEYWORD"),
      Decl(Anno(TRUE, <<"str">>), Empty, "POSITIONAL_OR_KEYWORD"),
      Decl(Anno(TRUE, <<"NoneType">>), Empty, "POSITIONAL_OR_KEYWORD"),
      Decl(Anno(TRUE, <<"int", "NoneType">>), Empty, "POSITIONAL_OR_KEYWORD"),
      Decl(Anno(TRUE, <<"bool", "int">>), Empty, "POSITIONAL_OR_KEYWORD"),
      Decl(Anno(TRUE, <<"int">>), Empty, "VAR_POSITIONAL"),
      Decl(Anno(FALSE, <<"bool", "int">>), Empty, "VAR_POSITIONAL"),
      Decl(Anno(TRUE, <<"int">>), Empty, "KEYWORD_ONLY"),
      Decl(Anno(FALSE, <<"bool", "int">>), Empty, "KEYWORD_ONLY"),
      Decl(Anno(FALSE, <<"str">>), Empty, "KEYWORD_ONLY") }

TypeSignatures ==
    { s \in UNION { [1..n -> TypeDecls] : n \in 0..MaxParams } : ValidSignature(s) }

TypeTokenLists == UNION { [1..n -> {"1", "\"x\""}] : n \in 0..MaxTokens }

InitTypes ==
    /\ pc = "build"
    /\ sig \in TypeSignatures
    /\ ctx_args \in TypeTokenLists
    /\ ignore_extra \in BOOLEAN
    /\ params = <<>>
    /\ args = ArgsIterator(<<>>)
    /\ arg = ""
    /\ arg_pos = -1
    /\ param_index = 0
    /\ new_args = <<>>
    /\ kwargs = <<>>
    /\ outcome = NoOutcome
    /\ hist = <<>>
    /\ suspended = NoFrame
    /\ alone = <<>>
    /\ dispatch = NoDispatch
    /\ registry = NoRegistry

SpecTypes == InitTypes /\ [][Next]_vars

(***************************************************************************)
(* Two runs of call_callback on one command.  The command first binds the  *)
(* message of each run by itself, then the two runs are started together   *)
(* and the event loop moves from one to the other at their awaits.         *)
(***************************************************************************)
SharedDecls ==
    { Decl(Anno(FALSE, <<"int">>), Empty, "POSITIONAL_OR_KEYWORD"),
      Decl(Anno(FALSE, <<"int">>), IntV(7), "POSITIONAL_OR_KEYWORD"),
      Decl(Anno(TRUE, <<"int">>), Empty, "POSITIONAL_OR_KEYWORD"),
      Decl(Anno(FALSE, <<"int">>), Empty, "VAR_POSITIONAL"),
      Decl(Anno(FALSE, <<"str">>), Empty, "KEYWORD_ONLY") }

SharedSignatures ==
    { s \in UNION { [1..n -> SharedDecls] : n \in 0..MaxParams } : ValidSignature(s) }

\* the messages of the first and of the second run
FirstTokenLists == UNION { [1..n -> {"1", "\"x\""}] : n \in 0..MaxTokens }
SecondTokenLists == { <<>>, <<"\"x\"">>, <<"2", "\"x\"">> }

InitShared ==
    /\ pc = "build"
    /\ sig \in SharedSignatures
    /\ ctx_args \in FirstTokenLists
    /\ ignore_extra \in BOOLEAN
    /\ params = <<>>
    /\ args = ArgsIterator(<<>>)
    /\ arg = ""
    /\ arg_pos = -1
    /\ param_index = 0
    /\ new_args = <<>>
    /\ kwargs = <<>>
    /\ outcome = NoOutcome
    /\ hist = <<>>
    /\ suspended = NoFrame
    /\ alone = <<>>
    /\ dispatch = NoDispatch
    /\ registry = NoRegistry

\* the local variables of the running call_callback
Frame ==
    [ pc |-> pc, ctx_args |-> ctx_args, args |-> args, arg |-> arg,
      arg_pos |-> arg_pos, param_index |-> param_index, new_args |-> new_args,
      kwargs |-> kwargs, outcome |-> outcome, hist |-> hist ]

\* a resumed run that goes on with the cursor of the run that just stopped
Resume_SharedCursor(f) == [f EXCEPT !.args = args]

\* what a coroutine finds in its frame when it is resumed: what it left
Resume(f) == f

\* the running coroutine becomes the one with frame f
Install(f) ==
    /\ pc' = f.pc
    /\ ctx_args' = f.ctx_args
    /\ args' = f.args
    /\ arg' = f.arg
    /\ arg_pos' = f.arg_pos
    /\ param_index' = f.param_index
    /\ new_args' = f.new_args
    /\ kwargs' = f.kwargs
    /\ outcome' = f.outcome
    /\ hist' = f.hist

\* the command was built
Built == pc # "build" /\ _get_params(sig).err = NoError

\* the first run has ended by itself: the command is invoked for a second
\* message
Again ==
    /\ Built
    /\ pc = "done"
    /\ suspended = NoFrame
    /\ alone = <<>>
    /\ alone' = << [ctx_args |-> ctx_args, outcome |-> outcome] >>
    /\ \E toks \in SecondTokenLists : Install(ReadyFrame(toks))
    /\ UNCHANGED << registry, dispatch, sig, ignore_extra, params, suspended >>

\* the second run has ended by itself: the command is invoked for both
\* messages at once
Together ==
    /\ Built
    /\ pc = "done"
    /\ suspended = NoFrame
    /\ Len(alone) = 1
    /\ alone' = Append(alone, [ctx_args |-> ctx_args, outcome |-> outcome])
    /\ Install(ReadyFrame(alone[1].ctx_args))
    /\ suspended' = ReadyFrame(ctx_args)
    /\ UNCHANGED << registry, dispatch, sig, ignore_extra, params >>

\* the running call_callback stops at an await (of _convert, of
\* _greedy_convert, of the handler) or ends, and the event loop resumes the
\* other one
Switch ==
    /\ suspended # NoFrame
    /\ suspended' = Frame
    /\ Install(Resume(suspended))
    /\ UNCHANGED << registry, dispatch, sig, ignore_extra, params, alone >>

NextShared ==
    \/ Next
    \/ Again
    \/ Together
    \/ Switch

SpecShared == InitShared /\ [][NextShared]_vars

\* the outcome of the run of the message toks when it ran by itself
AloneOutcomes(toks) ==
    { alone[k].outcome : k \in { j \in 1..Len(alone) : alone[j].ctx_args = toks } }

\* C13: two runs of call_callback on the same command, interleaved at their
\* awaits in any way, each end with the outcome (the handler's arguments or
\* the error) they have when run alone, and the descriptor list stays the
\* one the builder made.
C13_RunsIndependent ==
    /\ Built => params = _get_params(sig).params
    /\ (Len(alone) = 2 /\ pc = "done") => AloneOutcomes(ctx_args) = {outcome}
    /\ (Len(alone) = 2 /\ suspended.pc = "done") =>
          AloneOutcomes(suspended.ctx_args) = {suspended.outcome}

\* C13 witness: both runs are inside the token loop, each having bound a
\* descriptor, and each goes on to its own end
C13_Witness ==
    /\ Len(alone) = 2
    /\ pc = "while" /\ Len(hist) = 1
    /\ suspended.pc = "while" /\ Len(suspended.hist) = 1
    /\ ctx_args # suspended.ctx_args

(***************************************************************************)
(* Runs of handlers with boolean parameters on the words of the boolean    *)
(* recognizer, in several spellings, and on other tokens.                  *)
(***************************************************************************)
BoolDecls ==
    { Decl(Anno(FALSE, <<"bool">>), Empty, "POSITIONAL_OR_KEYWORD"),
      Decl(Anno(TRUE, <<"bool">>), Empty, "POSITIONAL_OR_KEYWORD"),
      Decl(Anno(FALSE, <<"bool">>), Empty, "VAR_POSITIONAL"),
      Decl(Anno(FALSE, <<"bool">>), Empty, "KEYWORD_ONLY") }

BoolSignatures == { <<d>> : d \in BoolDecls }

BoolTokens ==
    { "yes", "y", "true", "t", "1", "enable", "on",
      "no", "n", "false", "f", "0", "disable", "off",
      "YES", "Yes", "yEs", "Y", "TRUE", "True", "T", "ENABLE", "Enable", "ON", "On",
      "NO", "No", "N", "FALSE", "False", "F", "DISABLE", "Off", "OFF", "oFF",
      "\"Yes\"", "\"yes \"", "\"\"", "2", "x", "maybe", "yess", "ye", "tr", "onn",
      "00", "10", "nope", "of", "enabled" }

BoolTokenLists ==
    { <<t>> : t \in BoolTokens } \cup { <<t, u>> : t \in BoolTokens, u \in {"1", "NO"} }

InitBool ==
    /\ pc = "build"
    /\ sig \in BoolSignatures
    /\ ctx_args \in BoolTokenLists
    /\ ignore_extra \in BOOLEAN
    /\ params = <<>>
    /\ args = ArgsIterator(<<>>)
    /\ arg = ""
    /\ arg_pos = -1
    /\ param_index = 0
    /\ new_args = <<>>
    /\ kwargs = <<>>
    /\ outcome = NoOutcome
    /\ hist = <<>>
    /\ suspended = NoFrame
    /\ alone = <<>>
    /\ dispatch = NoDispatch
    /\ registry = NoRegistry

SpecBool == InitBool /\ [][Next]_vars

\* the spellings of a word in upper and lower case letters
UpperChar(c) ==
    IF \E i \in 1..26 : LowerCase[i] = c
    THEN UpperCase[CHOOSE i \in 1..26 : LowerCase[i] = c]
    ELSE c

RECURSIVE CaseVariants(_)
CaseVariants(w) ==
    IF w = "" THEN {""}
    ELSE { c \o r : c \in {SubSeq(w, 1, 1), UpperChar(SubSeq(w, 1, 1))},
                    r \in CaseVariants(SubSeq(w, 2, Len(w))) }

TrueTokens ==
    UNION { CaseVariants(w) : w \in {"yes", "y", "true", "t", "1", "enable", "on"} }
FalseTokens ==
    UNION { CaseVariants(w) : w \in {"no", "n", "false", "f", "0", "disable", "off"} }

\* C21: the boolean converter gives True for every token that, letter case
\* aside, is one of yes, y, true, t, 1, enable, on, gives False for every
\* token that is one of no, n, false, f, 0, disable, off, and raises
\* BadArgument "<token> is not a recognised boolean option." for any other.
C21_BooleanWords ==
    [][ (/\ pc = "while"
         /\ param.type.alts = <<"bool">>
         /\ ~param.greedy /\ ~param.variable /\ ~param.consume_rest) =>
          IF arg \in TrueTokens
          THEN new_args' = Append(new_args, BoolV(TRUE)) /\ outcome' = NoOutcome
          ELSE IF arg \in FalseTokens
          THEN new_args' = Append(new_args, BoolV(FALSE)) /\ outcome' = NoOutcome
          ELSE outcome' = Raises([exc |-> "BadArgument",
                                  msg |-> arg \o " is not a recognised boolean option."])
       ]_vars

\* C21 witness: the token TRUE bound to a boolean parameter as True
C21_Witness ==
    /\ pc = "done"
    /\ ctx_args = <<"TRUE">>
    /\ params[1].type.alts = <<"bool">>
    /\ ~params[1].greedy /\ ~params[1].variable /\ ~params[1].consume_rest
    /\ outcome = Invoked(<<BoolV(TRUE)>>, <<>>)

(***************************************************************************)
(* Message dispatch: MolterSnake._dispatch_msg_commands walks from the bot  *)
(* down the subcommands named by the first words of the message, then runs  *)
(* the command it reached.  The text after the prefix is kept as its list   *)
(* of words.                                                                *)
(***************************************************************************)
MaxWords == 3

Words == {"a", "b", "c", "p", "z"}

Contents == UNION { [1..n -> Words] : n \in 0..MaxWords }

InitDispatch ==
    /\ pc = "build"
    /\ sig = <<>>
    /\ ctx_args = <<>>
    /\ ignore_extra = TRUE
    /\ params = <<>>
    /\ args = ArgsIterator(<<>>)
    /\ arg = ""
    /\ arg_pos = -1
    /\ param_index = 0
    /\ new_args = <<>>
    /\ kwargs = <<>>
    /\ outcome = NoOutcome
    /\ hist = <<>>
    /\ suspended = NoFrame
    /\ alone = <<>>
    /\ \E content \in Contents :
       \E en \in [Commands -> BOOLEAN] :
       \E hc \in [MolterCommands -> BOOLEAN] :
           dispatch = [ pc |-> "begin", content_parameters |-> content,
                        command |-> "self", enabled |-> en,
                        hierarchical_checking |-> hc, trace |-> <<>> ]
    /\ registry = NoRegistry

\* what dispatch awaited: the checks of a command, or the run of the command
\* it reached (its own checks and its callback, by _run_message_command)
Awaited(ev, c) == [ev |-> ev, cmd |-> c]

\* get_first_word
get_first_word(content) == IF content = <<>> THEN "none" ELSE Head(content)

\* "content_parameters.removeprefix(first_word).strip()"
RemoveFirstWord(content) == Tail(content)

\* _dispatch_msg_commands up to "command = self": the message has a text, its
\* author is not a bot and one of the prefixes starts it
Begin ==
    /\ dispatch.pc = "begin"
    /\ \E author_bot \in BOOLEAN, prefix_used \in BOOLEAN :
           dispatch' = [dispatch EXCEPT
               !.pc = IF author_bot \/ ~prefix_used THEN "done" ELSE "loop",
               !.command = "self"]
    /\ UNCHANGED << pc, sig, ctx_args, ignore_extra, params, args, arg, arg_pos,
                    param_index, new_args, kwargs, outcome, hist, suspended, alone,
                    registry >>

\* the command the next word names under the command reached so far
NewCommand ==
    Get(IF dispatch.command \in MolterCommands THEN command_dict(dispatch.command)
        ELSE commands,
        get_first_word(dispatch.content_parameters))

\* RunsChecks without the test of hierarchical_checking
RunsChecks_Always(c) == command_dict(c) # <<>>

\* the test before "await new_command._can_run(context)", made on the command
\* just reached
RunsChecks(c) == command_dict(c) # <<>> /\ dispatch.hierarchical_checking[c]

\* one pass of the "while True" loop; _can_run returns or raises, and what it
\* raises leaves _dispatch_msg_commands
Resolve ==
    /\ dispatch.pc = "loop"
    /\ \E new_command \in {NewCommand} :
       \E can_run \in BOOLEAN :
           dispatch' =
               IF new_command = "none" \/ ~dispatch.enabled[new_command]
               THEN [dispatch EXCEPT !.pc = "after"]
               ELSE IF new_command \notin MolterCommands
               THEN [dispatch EXCEPT !.pc = "after", !.command = new_command,
                        !.content_parameters = RemoveFirstWord(@)]
               ELSE IF RunsChecks(new_command)
               THEN [dispatch EXCEPT !.pc = IF can_run THEN "loop" ELSE "done",
                        !.command = new_command,
                        !.content_parameters = RemoveFirstWord(@),
                        !.trace = Append(@, Awaited("_can_run", new_command))]
               ELSE [dispatch EXCEPT !.pc = "loop", !.command = new_command,
                        !.content_parameters = RemoveFirstWord(@)]
    /\ UNCHANGED << pc, sig, ctx_args, ignore_extra, params, args, arg, arg_pos,
                    param_index, new_args, kwargs, outcome, hist, suspended, alone,
                    registry >>

\* after the loop: "if command and command.enabled" runs the command
RunMessageCommand ==
    /\ dispatch.pc = "after"
    /\ dispatch' =
           IF dispatch.command = "self" \/ ~dispatch.enabled[dispatch.command]
           THEN [dispatch EXCEPT !.pc = "done"]
           ELSE [dispatch EXCEPT !.pc = "done",
                    !.trace = Append(@, Awaited("_run_message_command",
                                                dispatch.command))]
    /\ UNCHANGED << pc, sig, ctx_args, ignore_extra, params, args, arg, arg_pos,
                    param_index, new_args, kwargs, outcome, hist, suspended, alone,
                    registry >>

NextDispatch ==
    \/ Begin
    \/ Resolve
    \/ RunMessageCommand

SpecDispatch == InitDispatch /\ [][NextDispatch]_vars

\* the commands above c, the nearest first
RECURSIVE Ancestors(_)
Ancestors(c) ==
    IF parent(c) = "none" THEN <<>> ELSE <<parent(c)>> \o Ancestors(parent(c))

\* the places of the trace where the checks of c were awaited
ChecksAt(c) ==
    { i \in 1..Len(dispatch.trace) : dispatch.trace[i] = Awaited("_can_run", c) }

\* the places of the trace where a command was run
RunsAt ==
    { i \in 1..Len(dispatch.trace) : dispatch.trace[i].ev = "_run_message_command" }

\* C25: when dispatch runs a subcommand, the checks of each of its ancestors
\* that has hierarchical_checking = True were run before, the checks of an
\* ancestor coming before those of the ancestors below it, and no check of
\* an ancestor with hierarchical_checking = False was run.
C25_HierarchicalChecks ==
    \A r \in RunsAt :
        LET up == Ancestors(dispatch.trace[r].cmd) IN
        \A i \in 1..Len(up) :
            IF dispatch.hierarchical_checking[up[i]]
            THEN /\ \E k \in ChecksAt(up[i]) : k < r
                 /\ \A j \in 1..(i - 1) :
                        \A k \in ChecksAt(up[i]) : \A m \in ChecksAt(up[j]) : k < m
            ELSE ChecksAt(up[i]) = {}

\* "a b c" ran C after the checks of A, with no check of B whose
\* hierarchical_checking is False
C25_Witness ==
    /\ dispatch.pc = "done"
    /\ dispatch.hierarchical_checking["A"] /\ ~dispatch.hierarchical_checking["B"]
    /\ dispatch.trace = << Awaited("_can_run", "A"),
                           Awaited("_run_message_command", "C") >>

(***************************************************************************)
(* Runs of handlers with one parameter of each kind of concrete type that  *)
(* _get_converter tells apart.                                             *)
(***************************************************************************)
ConverterDecls ==
    { Decl(Anno(FALSE, <<t>>), Empty, "POSITIONAL_OR_KEYWORD") :
          t \in { "SnowflakeObject", "AConv", "HasConvert", "fnc1", "Lit", "fn0", "fn1",
                  "fn2", "fn3", "bool", "empty", "int", "str" } }
    \cup { Decl(Anno(FALSE, <<"fnc1", "bool">>), Empty, "POSITIONAL_OR_KEYWORD"),
            Decl(Anno(FALSE, <<"SnowflakeObject", "fn1">>), Empty,
                 "POSITIONAL_OR_KEYWORD"),
            Decl(Anno(TRUE, <<"int">>), Empty, "POSITIONAL_OR_KEYWORD"),
            Decl(Anno(FALSE, <<"HasConvert">>), Empty, "VAR_POSITIONAL"),
            Decl(Anno(FALSE, <<"fnc1">>), Empty, "KEYWORD_ONLY") }

InitConverters ==
    /\ pc = "build"
    /\ sig \in { <<d>> : d \in ConverterDecls }
    /\ ctx_args \in TokenLists
    /\ ignore_extra \in BOOLEAN
    /\ params = <<>>
    /\ args = ArgsIterator(<<>>)
    /\ arg = ""
    /\ arg_pos = -1
    /\ param_index = 0
    /\ new_args = <<>>
    /\ kwargs = <<>>
    /\ outcome = NoOutcome
    /\ hist = <<>>
    /\ suspended = NoFrame
    /\ alone = <<>>
    /\ dispatch = NoDispatch
    /\ registry = NoRegistry

SpecConverters == InitConverters /\ [][Next]_vars

\* the rules in the order the claim gives them: 1 registered converter,
\* 2 convert capability, 3 Literal, 4 plain function, 5 bool, 6 untyped,
\* 7 the type as a constructor
Matches(r, t) ==
    CASE r = 1 -> t \in DOMAIN SNEK_OBJECT_TO_CONVERTER
      [] r = 2 -> HasConvertAttr(t)
      [] r = 3 -> t \in LiteralTypes
      [] r = 4 -> t \in FunctionTypes
      [] r = 5 -> t = "bool"
      [] r = 6 -> t = "empty"
      [] OTHER -> TRUE

FirstRule(t) == CHOOSE r \in 1..7 : Matches(r, t) /\ \A q \in 1..(r - 1) : ~Matches(q, t)

\* the rule a converter comes from
RuleOf(c) ==
    CASE c.kind = "registered" -> 1
      [] c.kind \in {"convert", "attr_convert"} -> 2
      [] c.kind = "literal" -> 3
      [] c.kind \in {"ctx_arg", "arg", "no_args", "None"} -> 4
      [] c.kind = "bool" -> 5
      [] c.kind = "str" -> 6
      [] OTHER -> 7

\* the concrete types a declared parameter gets converters for
ConvertedTypes(d) ==
    IF Len(d.anno.alts) >= 2 THEN SelectSeq(d.anno.alts, NotNone) ELSE d.anno.alts

\* C31: the converter the builder picks for a concrete type comes from the
\* first rule, in the order registered converter, convert capability,
\* Literal, plain function, bool, untyped, constructor, that the type
\* matches; a type that matches several rules gets the earliest.
C31_FirstMatchingRule ==
    \A i \in 1..Len(params) :
        /\ Len(params[i].converters) = Len(ConvertedTypes(sig[i]))
        /\ \A k \in 1..Len(params[i].converters) :
               /\ params[i].converters[k].anno = ConvertedTypes(sig[i])[k]
               /\ RuleOf(params[i].converters[k]) = FirstRule(ConvertedTypes(sig[i])[k])

\* a function that has a convert attribute was converted by that attribute,
\* not called by its arity
C31_Witness ==
    /\ pc = "done" /\ outcome.kind = "invoked"
    /\ sig[1].anno.alts = <<"fnc1">>
    /\ Matches(2, "fnc1") /\ Matches(4, "fnc1")
    /\ params[1].converters[1].kind = "attr_convert"
    /\ outcome.args = << TupleV(<<CtxV, StrV(args.args[1])>>) >>

(***************************************************************************)
(* Runs on tokens with quote characters at either end, at both ends, in    *)
(* the middle, and without any.                                            *)
(***************************************************************************)
QuoteTokens == {"x", "\"x\"", "\"x", "x\"", "\"", "\"\"", "\"a b\"", "a\"b"}

QuoteSignatures ==
    { <<d>> : d \in
    { Decl(Anno(FALSE, <<"empty">>), Empty, "POSITIONAL_OR_KEYWORD"),
      Decl(Anno(TRUE, <<"fn1">>), Empty, "POSITIONAL_OR_KEYWORD"),
      Decl(Anno(FALSE, <<"str">>), Empty, "VAR_POSITIONAL"),
      Decl(Anno(FALSE, <<"str">>), Empty, "KEYWORD_ONLY") } }

InitQuotes ==
    /\ pc = "build"
    /\ sig \in QuoteSignatures
    /\ ctx_args \in {<<>>} \cup { <<t>> : t \in QuoteTokens }
                            \cup { <<t, u>> : t, u \in QuoteTokens }
    /\ ignore_extra \in BOOLEAN
    /\ params = <<>>
    /\ args = ArgsIterator(<<>>)
    /\ arg = ""
    /\ arg_pos = -1
    /\ param_index = 0
    /\ new_args = <<>>
    /\ kwargs = <<>>
    /\ outcome = NoOutcome
    /\ hist = <<>>
    /\ suspended = NoFrame
    /\ alone = <<>>
    /\ dispatch = NoDispatch
    /\ registry = NoRegistry

SpecQuotes == InitQuotes /\ [][Next]_vars

\* the closing quote that matches an opening quote
ClosingOf(q) == IF q = "\"" THEN "\"" ELSE ""

QuoteChars == _quotes \cup { ClosingOf(q) : q \in _quotes }

\* a token inside one matching outer pair of quotes
InOuterPair(t) ==
    /\ Len(t) >= 2
    /\ SubSeq(t, 1, 1) \in _quotes
    /\ SubSeq(t, Len(t), Len(t)) = ClosingOf(SubSeq(t, 1, 1))

IsNoQuote(c) == c \notin QuoteChars

\* the characters of a token that are no quote characters, in order
NonQuotes(t) == SelectSeq(Spell(t), IsNoQuote)

\* the tokens have been prepared for the binder
Prepared == pc \in {"for", "while", "after", "done"} /\ params # <<>>

\* C32: preparing a token removes only one matching outer pair of quotes: a
\* token inside a matching pair loses exactly those two characters, a token
\* that does not start with a quote is passed as it is, and no character
\* that is not a quote is removed from any token.
C32_OnlyOuterPair ==
    Prepared =>
        /\ Len(args.args) = Len(ctx_args)
        /\ \A i \in 1..Len(ctx_args) :
               /\ InOuterPair(ctx_args[i])
                      => args.args[i] = SubSeq(ctx_args[i], 2, Len(ctx_args[i]) - 1)
               /\ SubSeq(ctx_args[i], 1, 1) \notin _quotes
                      => args.args[i] = ctx_args[i]
               /\ NonQuotes(args.args[i]) = NonQuotes(ctx_args[i])

(***************************************************************************)
(* The registry of commands: MolterCommand.add_command, get_command and    *)
(* qualified_name, MolterSnake.add_message_command and get_command.        *)
(***************************************************************************)
\* the number of registrations in a run
MaxCalls == 3

\* MolterCommand.name, and the name of the plain command
cmd_name(c) ==
    CASE c = "Top" -> "top"
      [] c = "Sub" -> "sub"
      [] c = "Leaf" -> "leaf"
      [] c = "Dup" -> "dup"
      [] OTHER -> "plain"

\* MolterCommand.aliases
aliases(c) ==
    CASE c = "Sub" -> <<"s">>
      [] c = "Leaf" -> <<"lf">>
      [] c = "Dup" -> <<"d", "s">>
      [] OTHER -> <<>>

\* the names get_command is asked for
QueryNames ==
    {"sub", "lf", "sub leaf", "s leaf", "leaf sub", "leaf dup", "sub zz", "leaf",
     "sub leaf dup", " sub", " "}

\* a call that never returns
Hang == [exc |-> "never returns", msg |-> ""]

\* the parent links from command end within n steps at a command whose parent
\* is None
RECURSIVE EndsIn(_, _, _)
EndsIn(par, command, n) ==
    \/ par[command] = "none"
    \/ n > 0 /\ EndsIn(par, par[command], n - 1)

\* name_deq at the end of the loop of qualified_name
RECURSIVE name_deq(_, _)
name_deq(par, command) ==
    IF par[command] = "none" THEN <<>>
    ELSE Append(name_deq(par, par[command]), cmd_name(command))

\* MolterCommand.qualified_name; the loop does not end when the parent links
\* come back to a command they passed
qualified_name(reg, self) ==
    IF EndsIn(reg.parent, self, Cardinality(RegistryCommands))
    THEN [hang |-> FALSE, value |-> Join(" ", name_deq(reg.parent, self))]
    ELSE [hang |-> TRUE, value |-> ""]

\* raise ValueError("Duplicate Command! ..."), whose message reads
\* self.qualified_name; the apostrophes stand for the grave accents of the
\* message
DuplicateCommand(reg, self, cmd) ==
    IF qualified_name(reg, self).hang THEN Hang
    ELSE Raised("ValueError",
                "Duplicate Command! Multiple commands share the name/alias '"
                    \o qualified_name(reg, self).value \o " " \o cmd_name(cmd) \o "'")

\* "for alias in cmd.aliases" of add_command
RECURSIVE AddAliases(_, _, _, _, _)
AddAliases(reg, self, cmd, als, cmd_names) ==
    IF als = <<>> THEN [reg |-> reg, err |-> NoError]
    ELSE IF Head(als) \in cmd_names
    THEN [reg |-> reg, err |-> DuplicateCommand(reg, self, cmd)]
    ELSE AddAliases([reg EXCEPT !.command_dict[self] = (Head(als) :> cmd) @@ @],
                    self, cmd, Tail(als), cmd_names)

\* MolterCommand.add_command: the registry after the call and the error it
\* raised
add_command(reg, self, cmd) ==
    IF cmd_name(cmd) \in DOMAIN reg.command_dict[self]
    THEN [reg |-> [reg EXCEPT !.parent[cmd] = self],
          err |-> DuplicateCommand([reg EXCEPT !.parent[cmd] = self], self, cmd)]
    ELSE AddAliases([reg EXCEPT !.parent[cmd] = self,
                                !.command_dict[self] = (cmd_name(cmd) :> cmd) @@ @],
                    self, cmd, aliases(cmd), DOMAIN reg.command_dict[self])

\* Snake.add_message_command, called as super().add_message_command
Snake_add_message_command(reg, command) ==
    IF cmd_name(command) \notin DOMAIN reg.commands
    THEN [reg |-> [reg EXCEPT !.commands = (cmd_name(command) :> command) @@ @],
          err |-> NoError]
    ELSE [reg |-> reg,
          err |-> Raised("ValueError",
                         "Duplicate Command! Multiple commands share the name "
                             \o cmd_name(command))]

\* "for alias in command.aliases" of add_message_command
RECURSIVE AddBotAliases(_, _, _)
AddBotAliases(reg, command, als) ==
    IF als = <<>> THEN [reg |-> reg, err |-> NoError]
    ELSE IF Head(als) \notin DOMAIN reg.commands
    THEN AddBotAliases([reg EXCEPT !.commands = (Head(als) :> command) @@ @],
                       command, Tail(als))
    ELSE [reg |-> reg,
          err |-> Raised("ValueError",
                         "Duplicate Command! Multiple commands share the name/alias '"
                             \o Head(als) \o "'")]

\* MolterSnake.add_message_command
add_message_command(reg, command) ==
    IF command \notin RegistryCommands THEN Snake_add_message_command(reg, command)
    ELSE IF reg.parent[command] # "none" THEN [reg |-> reg, err |-> NoError]
    ELSE IF Snake_add_message_command(reg, command).err # NoError
    THEN Snake_add_message_command(reg, command)
    ELSE AddBotAliases(Snake_add_message_command(reg, command).reg, command,
                       aliases(command))

\* " " in name
HasSpace(s) == \E i \in 1..Len(s) : SubSeq(s, i, i) = " "

\* str.split() of a text whose only whitespace is the space
RECURSIVE split(_)
split(s) ==
    IF s = "" THEN <<>>
    ELSE IF SubSeq(s, 1, 1) = " " THEN split(SubSeq(s, 2, Len(s)))
    ELSE LET end == IF HasSpace(s)
                    THEN CHOOSE i \in 1..Len(s) :
                             /\ SubSeq(s, i, i) = " "
                             /\ \A j \in 1..(i - 1) : SubSeq(s, j, j) # " "
                    ELSE Len(s) + 1
         IN  <<SubSeq(s, 1, end - 1)>> \o split(SubSeq(s, end, Len(s)))

\* "for name in names[1:]": cmd = cmd.command_dict[name], None on
\* AttributeError and KeyError
RECURSIVE Descend(_, _, _)
Descend(reg, cmd, names) ==
    IF names = <<>> THEN cmd
    ELSE IF cmd \in RegistryCommands /\ Head(names) \in DOMAIN reg.command_dict[cmd]
    THEN Descend(reg, reg.command_dict[cmd][Head(names)], Tail(names))
    ELSE "none"

\* MolterCommand.get_command
get_command(reg, self, n) ==
    IF ~HasSpace(n) THEN Get(reg.command_dict[self], n)
    ELSE IF split(n) = <<>> THEN "none"
    ELSE IF Get(reg.command_dict[self], SubSeq(n, 1, 1)) = "none"
    THEN "none"
    ELSE IF reg.command_dict[Get(reg.command_dict[self], SubSeq(n, 1, 1))] = <<>>
    THEN Get(reg.command_dict[self], SubSeq(n, 1, 1))
    ELSE Descend(reg, Get(reg.command_dict[self], SubSeq(n, 1, 1)), Tail(split(n)))

\* MolterSnake.get_command
MolterSnake_get_command(reg, n) ==
    IF ~HasSpace(n) THEN Get(reg.commands, n)
    ELSE IF split(n) = <<>> THEN "none"
    ELSE IF Get(reg.commands, split(n)[1]) = "none" THEN "none"
    ELSE IF \/ Get(reg.commands, split(n)[1]) \notin RegistryCommands
            \/ reg.command_dict[Get(reg.commands, split(n)[1])] = <<>>
    THEN Get(reg.commands, split(n)[1])
    ELSE Descend(reg, Get(reg.commands, split(n)[1]), Tail(split(n)))

\* the last call returned or raised, and was not a read: a run is a sequence
\* of registrations and then one read, which changes nothing a later call
\* could see
Returned ==
    /\ registry.last.err # Hang
    /\ registry.last.op \in {"none", "add_command", "add_message_command"}

InitRegistry ==
    /\ pc = "build"
    /\ sig = <<>>
    /\ ctx_args = <<>>
    /\ ignore_extra = TRUE
    /\ params = <<>>
    /\ args = ArgsIterator(<<>>)
    /\ arg = ""
    /\ arg_pos = -1
    /\ param_index = 0
    /\ new_args = <<>>
    /\ kwargs = <<>>
    /\ outcome = NoOutcome
    /\ hist = <<>>
    /\ suspended = NoFrame
    /\ alone = <<>>
    /\ dispatch = NoDispatch
    /\ registry = NoRegistry

\* self.add_command(cmd)
AddCommand ==
    /\ Returned
    /\ registry.calls < MaxCalls
    /\ \E self \in RegistryCommands : \E cmd \in RegistryCommands :
       \E r \in {add_command(registry, self, cmd)} :
           registry' = [r.reg EXCEPT !.calls = @ + 1,
                                     !.last = [op |-> "add_command", self |-> self, cmd |-> cmd, name |-> "", result |-> "none", err |-> r.err]]
    /\ UNCHANGED << pc, sig, ctx_args, ignore_extra, params, args, arg, arg_pos,
                    param_index, new_args, kwargs, outcome, hist, suspended, alone,
                    dispatch >>

\* bot.add_message_command(command)
AddMessageCommand ==
    /\ Returned
    /\ registry.calls < MaxCalls
    /\ \E command \in RegistryCommands \cup {"Plain"} :
       \E r \in {add_message_command(registry, command)} :
           registry' = [r.reg EXCEPT !.calls = @ + 1,
                                     !.last = [op |-> "add_message_command", self |-> "bot", cmd |-> command, name |-> "", result |-> "none", err |-> r.err]]
    /\ UNCHANGED << pc, sig, ctx_args, ignore_extra, params, args, arg, arg_pos,
                    param_index, new_args, kwargs, outcome, hist, suspended, alone,
                    dispatch >>

\* self.get_command(name)
GetCommand ==
    /\ Returned
    /\ \E self \in RegistryCommands : \E n \in QueryNames :
           registry' = [registry EXCEPT
                            !.last = [op |-> "get_command", self |-> self, cmd |-> "none", name |-> n, result |-> get_command(registry, self, n), err |-> NoError]]
    /\ UNCHANGED << pc, sig, ctx_args, ignore_extra, params, args, arg, arg_pos,
                    param_index, new_args, kwargs, outcome, hist, suspended, alone,
                    dispatch >>

\* bot.get_command(name)
SnakeGetCommand ==
    /\ Returned
    /\ \E n \in QueryNames :
           registry' = [registry EXCEPT
                            !.last = [op |-> "MolterSnake.get_command", self |-> "bot", cmd |-> "none", name |-> n, result |-> MolterSnake_get_command(registry, n), err |-> NoError]]
    /\ UNCHANGED << pc, sig, ctx_args, ignore_extra, params, args, arg, arg_pos,
                    param_index, new_args, kwargs, outcome, hist, suspended, alone,
                    dispatch >>

\* self.qualified_name
QualifiedName ==
    /\ Returned
    /\ \E self \in RegistryCommands :
       \E q \in {qualified_name(registry, self)} :
           registry' = [registry EXCEPT
                            !.last = [op |-> "qualified_name", self |-> self, cmd |-> "none", name |-> "", result |-> q.value, err |-> IF q.hang THEN Hang ELSE NoError]]
    /\ UNCHANGED << pc, sig, ctx_args, ignore_extra, params, args, arg, arg_pos,
                    param_index, new_args, kwargs, outcome, hist, suspended, alone,
                    dispatch >>

NextRegistry ==
    \/ AddCommand
    \/ AddMessageCommand
    \/ GetCommand
    \/ SnakeGetCommand
    \/ QualifiedName

SpecRegistry == InitRegistry /\ [][NextRegistry]_vars

\* the step is a call self.add_command(cmd)
AddCommandStep ==
    /\ registry'.calls = registry.calls + 1
    /\ registry'.last.op = "add_command"

\* cmd.name or one of cmd.aliases is a key of self.command_dict
Clash(reg, self, cmd) ==
    \/ cmd_name(cmd) \in DOMAIN reg.command_dict[self]
    \/ \E i \in 1..Len(aliases(cmd)) : aliases(cmd)[i] \in DOMAIN reg.command_dict[self]

StartsWith(s, prefix) ==
    Len(s) >= Len(prefix) /\ SubSeq(s, 1, Len(prefix)) = prefix

\* cmd.name and every alias of cmd are keys of self.command_dict for cmd
RegisteredUnder(reg, self, cmd) ==
    /\ Get(reg.command_dict[self], cmd_name(cmd)) = cmd
    /\ \A i \in 1..Len(aliases(cmd)) : Get(reg.command_dict[self], aliases(cmd)[i]) = cmd

\* C33: add_command(cmd) raises ValueError "Duplicate Command!" when cmd.name
\* or one of cmd.aliases is already a key of the parent's command_dict;
\* otherwise it returns, cmd.name and every alias of cmd are keys of
\* command_dict for cmd, and cmd.parent is the parent.
C33_AddCommand ==
    [][AddCommandStep =>
          IF Clash(registry, registry'.last.self, registry'.last.cmd)
          THEN /\ registry'.last.err.exc = "ValueError"
               /\ StartsWith(registry'.last.err.msg, "Duplicate Command!")
          ELSE /\ registry'.last.err = NoError
               /\ RegisteredUnder(registry', registry'.last.self, registry'.last.cmd)
               /\ registry'.parent[registry'.last.cmd] = registry'.last.self]_vars

\* the step is a call bot.add_message_command(command)
AddMessageCommandStep ==
    /\ registry'.calls = registry.calls + 1
    /\ registry'.last.op = "add_message_command"

\* C34: when add_command raises ValueError for a duplicate name or alias the
\* registry is as it was before the call: the parent's command_dict has no
\* new key and the parent attribute of the rejected command is unchanged;
\* likewise the bot's commands when add_message_command raises.
C34_RejectedLeavesRegistry ==
    [][/\ AddCommandStep /\ registry'.last.err.exc = "ValueError"
          => /\ registry'.command_dict = registry.command_dict
             /\ registry'.parent = registry.parent
       /\ AddMessageCommandStep /\ registry'.last.err.exc = "ValueError"
          => registry'.commands = registry.commands]_vars

\* the words of a name
NameWords(n) == split(n)

\* the lookup of the words one after the other, the first in the table d and
\* each following one in the command_dict of the command found before; None
\* when a word is not found
RECURSIVE Walk(_, _, _)
Walk(reg, d, ws) ==
    IF Head(ws) \notin DOMAIN d THEN "none"
    ELSE IF Len(ws) = 1 THEN d[Head(ws)]
    ELSE IF d[Head(ws)] \notin RegistryCommands THEN "none"
    ELSE Walk(reg, reg.command_dict[d[Head(ws)]], Tail(ws))

\* C35: MolterCommand.get_command of a name of words separated by spaces
\* returns the command found by looking up the first word in the command's
\* command_dict and each following word in the command_dict of the result
\* before, None when a word is not found; MolterSnake.get_command resolves
\* the name in the same way on the same table.
C35_GetCommandResolves ==
    registry.last.op = "get_command" /\ NameWords(registry.last.name) # <<>> =>
        /\ registry.last.result =
               Walk(registry, registry.command_dict[registry.last.self],
                    NameWords(registry.last.name))
        /\ registry.last.result =
               MolterSnake_get_command(
                   [registry EXCEPT !.commands = registry.command_dict[registry.last.self]],
                   registry.last.name)

\* every parent link from c up to a command without a parent was made by an
\* add_command that registered the command under its parent
RECURSIVE Linked(_, _, _)
Linked(reg, c, n) ==
    \/ reg.parent[c] = "none"
    \/ /\ n > 0
       /\ \E k \in DOMAIN reg.command_dict[reg.parent[c]] :
              reg.command_dict[reg.parent[c]][k] = c
       /\ Linked(reg, reg.parent[c], n - 1)

\* the names on the path from the top-level ancestor of c down to c
RECURSIVE PathNames(_, _)
PathNames(par, c) ==
    IF par[c] = "none" THEN <<cmd_name(c)>>
    ELSE Append(PathNames(par, par[c]), cmd_name(c))

\* C36: the qualified_name of a command registered by add_command calls is
\* the names on the path from its top-level ancestor down to the command,
\* the ancestor's name included, joined by spaces; for a top-level command
\* it is the command's own name.
C36_QualifiedName ==
    /\ registry.last.op = "qualified_name"
    /\ Linked(registry, registry.last.self, Cardinality(RegistryCommands))
    => /\ registry.last.err = NoError
       /\ registry.last.result =
              Join(" ", PathNames(registry.parent, registry.last.self))

====
